---------------------------- MODULE Spec2Model ----------------------------
(***************************************************************************)
(* Card submission pipeline of the MiniApp server: POST /api/process-card  *)
(* (launch payload verification, registry authorization, inference,       *)
(* field normalization, duplicate lookup, insert) over the USERS and      *)
(* NATIONAL_ID_DATA sheets.                                                *)
(*                                                                         *)
(* Text is modelled as a sequence of characters; a character is a TLA+    *)
(* string naming it ("a", "7", " ", and "A7" / "P7" for the Arabic-Indic   *)
(* U+0667 / Persian U+06F7 digit seven).                                   *)
(***************************************************************************)
EXTENDS Integers, Sequences, FiniteSets, TLC

(***************************************************************************)
(* Bounds of the model.                                                    *)
(***************************************************************************)
MaxSubmissions == 2
MaxAdminOps == 1
MaxPairs == 3
MaxAdminRequests == 3

(***************************************************************************)
(* Program constants.                                                      *)
(***************************************************************************)
NationalIdLength == 14

(***************************************************************************)
(* Generic sequence helpers (Array.prototype.map/filter/join/find).        *)
(***************************************************************************)
RECURSIVE Join(_, _)
Join(parts, sep) ==
  IF parts = <<>> THEN <<>>
  ELSE IF Len(parts) = 1 THEN parts[1]
  ELSE parts[1] \o sep \o Join(Tail(parts), sep)

Range(seq) == {seq[i] : i \in 1..Len(seq)}

\* Index of the first TRUE of a sequence of test results, 0 when there is
\* none (Array.prototype.findIndex, shifted to 1-based indices).
FindIndex(tests) ==
  LET hits == {i \in DOMAIN tests : tests[i]}
  IN IF hits = {} THEN 0 ELSE CHOOSE i \in hits : \A j \in hits : i <= j

\* JavaScript undefined / null: a value distinct from every string.
Undefined == <<"#undefined">>

\* !v for a string-or-undefined value.
Falsy(v) == v = Undefined \/ v = <<>>

(***************************************************************************)
(* String.prototype.trim.                                                  *)
(***************************************************************************)
IsWhiteSpace(c) == c \in {" ", "\t"}

RECURSIVE TrimStart(_)
TrimStart(s) ==
  IF s = <<>> THEN s
  ELSE IF IsWhiteSpace(Head(s)) THEN TrimStart(Tail(s))
  ELSE s

RECURSIVE TrimEnd(_)
TrimEnd(s) ==
  IF s = <<>> THEN s
  ELSE IF IsWhiteSpace(s[Len(s)]) THEN TrimEnd(SubSeq(s, 1, Len(s) - 1))
  ELSE s

Trim(s) == TrimEnd(TrimStart(s))


(***************************************************************************)
(* services/gemini: post-processing of the inference response.             *)
(***************************************************************************)
AsciiDigits == {"0", "1", "2", "3", "4", "5", "6", "7", "8", "9"}

\* The lookup table of convertArabicNumeralsToEnglish: Arabic-Indic digits
\* (U+0660..U+0669, written "A0".."A9") and Persian digits (U+06F0..U+06F9,
\* written "P0".."P9") to the ASCII digit of the same value.
arabicToEnglishMap ==
  [c \in {"A0", "A1", "A2", "A3", "A4", "A5", "A6", "A7", "A8", "A9",
          "P0", "P1", "P2", "P3", "P4", "P5", "P6", "P7", "P8", "P9"} |->
     CASE c \in {"A0", "P0"} -> "0" [] c \in {"A1", "P1"} -> "1"
       [] c \in {"A2", "P2"} -> "2" [] c \in {"A3", "P3"} -> "3"
       [] c \in {"A4", "P4"} -> "4" [] c \in {"A5", "P5"} -> "5"
       [] c \in {"A6", "P6"} -> "6" [] c \in {"A7", "P7"} -> "7"
       [] c \in {"A8", "P8"} -> "8" [] c \in {"A9", "P9"} -> "9"]

\* Older revision of the identifier clean-up, which has no conversion step.
convertNothing(text) == text

\* text.split('').map(char => arabicToEnglishMap[char] || char).join('')
convertArabicNumeralsToEnglish(text) ==
  [i \in 1..Len(text) |->
     IF text[i] \in DOMAIN arabicToEnglishMap THEN arabicToEnglishMap[text[i]]
     ELSE text[i]]

\* A clean-up that keeps every character.
StripNothing(text) == text

\* text.replace(/\D/g, '')
StripNonDigits(text) == SelectSeq(text, LAMBDA c : c \in AsciiDigits)

\* An identifier taken as the inference call returned it.
rawNationalIdKept(rawNationalId) == rawNationalId

\* convertedNationalId, cleanedNationalId
cleanedNationalId(rawNationalId) ==
  StripNonDigits(convertArabicNumeralsToEnglish(rawNationalId))

\* A name assembly that drops the first line.
fullNameWithoutFirstLine(firstLine, secondLine, additionalLines) ==
  Trim(Join(<<secondLine>> \o additionalLines, <<" ">>))

\* nameParts.join(' ').trim() over the trimmed lines
fullName(firstLine, secondLine, additionalLines) ==
  Trim(Join(<<firstLine, secondLine>> \o additionalLines, <<" ">>))

\* (data.additionalLines || []).map(line => line.trim()).filter(line => line.length > 0)
cleanAdditionalLines(lines) ==
  SelectSeq([i \in 1..Len(lines) |-> Trim(lines[i])], LAMBDA l : Len(l) > 0)

\* What processIdCardImage returns (ok) or throws (error, with the digit
\* count the NATIONAL_ID_INCOMPLETE message carries).
Extracted(name, nationalId) ==
  [ok |-> TRUE, name |-> name, nationalId |-> nationalId, error |-> "", len |-> 0]

ExtractionError(kind, n) ==
  [ok |-> FALSE, name |-> <<>>, nationalId |-> <<>>, error |-> kind, len |-> n]

\* The statements of the try block after JSON.parse, on the parsed object.
ValidateData(data) ==
  IF Falsy(data.firstLine) \/ Falsy(data.secondLine) \/ Falsy(data.nationalId)
  THEN ExtractionError("EXTRACTION_FAILED", 0)
  ELSE LET firstLine == Trim(data.firstLine)
           secondLine == Trim(data.secondLine)
           additionalLines == cleanAdditionalLines(data.additionalLines)
           cleaned == cleanedNationalId(data.nationalId)
       IN IF firstLine = <<>> \/ secondLine = <<>>
          THEN ExtractionError("NAME_NOT_FOUND", 0)
          ELSE IF Len(cleaned) = 0
          THEN ExtractionError("NATIONAL_ID_NOT_FOUND", 0)
          ELSE IF Len(cleaned) # NationalIdLength
          THEN ExtractionError("NATIONAL_ID_INCOMPLETE", Len(cleaned))
          ELSE Extracted(fullName(firstLine, secondLine, additionalLines), cleaned)

\* The catch block: the message is replaced when it mentions a timeout or
\* the API key, kept otherwise, and defaulted when empty.
RethrowAs(kind) ==
  CASE kind \in {"TIMEOUT", "sdk:timeout"} -> "TIMEOUT_LONG"
    [] kind = "sdk:API key" -> "API_KEY_ERROR"
    [] kind = "sdk:" -> "PROCESSING_FAILED"
    [] OTHER -> kind

\* processIdCardImage from the settled race of withTimeout on: outcome is
\* the timer firing, the inference call rejecting, or its response text
\* (empty, not JSON, the JSON literal null, whose member read throws a
\* TypeError, or a JSON value with members).
ProcessOutcome(outcome) ==
  LET r == CASE outcome.kind = "timeout" -> ExtractionError("TIMEOUT", 0)
             [] outcome.kind = "rejects" -> ExtractionError(outcome.message, 0)
             [] outcome.rawJson = "empty" -> ExtractionError("READ_CARD_FAILED", 0)
             [] outcome.rawJson = "invalid" -> ExtractionError("PARSE_FAILED", 0)
             [] outcome.rawJson = "null" -> ExtractionError("TYPE_ERROR", 0)
             [] OTHER -> ValidateData(outcome.data)
  IN IF r.ok THEN r ELSE [r EXCEPT !.error = RethrowAs(r.error)]


(***************************************************************************)
(* routes: verifyAndExtractTelegramData.                                   *)
(*                                                                         *)
(* initData is modelled after URL decoding: the sequence of <<key, value>> *)
(* pairs in wire order, the hash pair among them.  The JSON text of the    *)
(* user field is modelled by its tokens ("{", one token per member, "}").  *)
(***************************************************************************)
\* UTF-16 code unit of the characters keys are written with.
CodeUnit(c) ==
  CASE c = "1" -> 49 [] c = "=" -> 61 [] c = "B" -> 66 [] c = "_" -> 95
    [] c = "a" -> 97 [] c = "b" -> 98 [] c = "e" -> 101 [] c = "h" -> 104
    [] c = "r" -> 114 [] c = "s" -> 115 [] c = "u" -> 117 [] c = "x" -> 120
    [] OTHER -> 0

\* Primary collation weight (punctuation < symbols < digits < letters, the
\* letters in alphabetical order whatever their case).
PrimaryWeight(c) ==
  CASE c = "_" -> 1 [] c = "=" -> 2 [] c = "1" -> 3
    [] c = "a" -> 4 [] c \in {"b", "B"} -> 5 [] c = "e" -> 6 [] c = "h" -> 7
    [] c = "r" -> 8 [] c = "s" -> 9 [] c = "u" -> 10 [] c = "x" -> 11
    [] OTHER -> 0

\* Tertiary collation weight: lower case before upper case.
TertiaryWeight(c) == IF c = "B" THEN 1 ELSE 0

\* Lexicographic comparison of two sequences of weights: -1, 0 or 1.
RECURSIVE CompareWeights(_, _)
CompareWeights(a, b) ==
  IF a = <<>> /\ b = <<>> THEN 0
  ELSE IF a = <<>> THEN -1
  ELSE IF b = <<>> THEN 1
  ELSE IF Head(a) < Head(b) THEN -1
  ELSE IF Head(a) > Head(b) THEN 1
  ELSE CompareWeights(Tail(a), Tail(b))

\* Comparison by code units (byte order for these characters).
codeUnitCompare(a, b) ==
  CompareWeights([i \in 1..Len(a) |-> CodeUnit(a[i])],
                 [i \in 1..Len(b) |-> CodeUnit(b[i])])

\* String.prototype.localeCompare: primary weights first, case as the
\* tie-break.
localeCompare(a, b) ==
  LET primary == CompareWeights([i \in 1..Len(a) |-> PrimaryWeight(a[i])],
                                [i \in 1..Len(b) |-> PrimaryWeight(b[i])])
  IN IF primary # 0 THEN primary
     ELSE CompareWeights([i \in 1..Len(a) |-> TertiaryWeight(a[i])],
                         [i \in 1..Len(b) |-> TertiaryWeight(b[i])])

\* The comparator of a sort, by name: ([a], [b]) => a.localeCompare(b), or
\* the comparison by code units.
Compare(comparator, a, b) ==
  IF comparator = "localeCompare" THEN localeCompare(a, b) ELSE codeUnitCompare(a, b)

\* Array.prototype.sort with a comparator on the keys: the stable sort of
\* the entries.
StableSort(entries, comparator) ==
  LET n == Len(entries)
      Before(i, j) ==
        LET c == Compare(comparator, entries[i][1], entries[j][1])
        IN c < 0 \/ (c = 0 /\ i < j)
  IN [k \in 1..n |->
        entries[CHOOSE i \in 1..n : Cardinality({j \in 1..n : Before(j, i)}) = k - 1]]

HashKey == <<"h", "a", "s", "h">>
UserKey == <<"u", "s", "e", "r">>

\* URLSearchParams.get: the value of the first pair with the key.
ParamsGet(params, key) ==
  LET i == FindIndex([k \in DOMAIN params |-> params[k][1] = key])
  IN IF i = 0 THEN Undefined ELSE params[i][2]

\* URLSearchParams.delete: every pair with the key is removed.
ParamsDelete(params, key) == SelectSeq(params, LAMBDA p : p[1] # key)

\* sortedParams: the entries sorted by key, as key=value lines joined by \n.
sortedParams(params) ==
  LET sorted == StableSort(params, "localeCompare")
  IN Join([i \in 1..Len(sorted) |-> sorted[i][1] \o <<"=">> \o sorted[i][2]],
          <<"\n">>)

\* HMAC-SHA256, hex encoded, as a collision-free function of key and
\* message that no plain text equals.
Hmac(key, message) == <<"#hmac">> \o key \o <<"#of">> \o message

\* crypto.createHmac('sha256', 'WebAppData').update(telegramBotToken)
SecretKey(telegramBotToken) == Hmac(<<"WebAppData">>, <<telegramBotToken>>)

\* JSON.parse of the user field and the reads of user.id, user.username and
\* user.first_name.  ok is FALSE when JSON.parse throws, or when the text
\* is null and reading user.id throws.
JsonMemberName(m) ==
  CASE m \in {"id:101", "id:102"} -> "id"
    [] m \in {"username:ali", "username:omar"} -> "username"
    [] m = "first_name:Al" -> "first_name"
    [] OTHER -> ""

JsonMemberValue(m) ==
  CASE m = "id:101" -> "101" [] m = "id:102" -> "102"
    [] m = "username:ali" -> "ali" [] m = "username:omar" -> "omar"
    [] m = "first_name:Al" -> "Al"
    [] OTHER -> ""

\* The value of the last member with the name, "" when there is none.
JsonMember(text, name) ==
  LET at == {i \in 1..Len(text) : JsonMemberName(text[i]) = name}
  IN IF at = {} THEN ""
     ELSE JsonMemberValue(text[CHOOSE i \in at : \A j \in at : j <= i])

\* A parse that accepts every text.
JsonParseLenient(text) ==
  [ok |-> TRUE,
   id |-> JsonMember(text, "id"),
   username |-> JsonMember(text, "username"),
   first_name |-> JsonMember(text, "first_name")]

JsonParseUser(text) ==
  IF /\ Len(text) >= 2
     /\ text[1] = "{"
     /\ text[Len(text)] = "}"
     /\ \A i \in 2..(Len(text) - 1) : JsonMemberName(text[i]) # ""
  THEN [ok |-> TRUE,
        id |-> JsonMember(text, "id"),
        username |-> JsonMember(text, "username"),
        first_name |-> JsonMember(text, "first_name")]
  ELSE [ok |-> FALSE, id |-> "", username |-> "", first_name |-> ""]

Placeholder == "mustakhdim"

Invalid == [valid |-> FALSE, userId |-> "", username |-> ""]

\* A check that accepts whatever hash is supplied.
HashAlwaysMatches(supplied, params, telegramBotToken) == TRUE

\* calculatedHash === hash
HashMatches(supplied, params, telegramBotToken) ==
  Hmac(SecretKey(telegramBotToken), sortedParams(params)) = supplied

verifyAndExtractTelegramData(initData, telegramBotToken) ==
  IF initData = <<>> THEN Invalid
  ELSE LET hash == ParamsGet(initData, HashKey)
           params == ParamsDelete(initData, HashKey)
           userParam == ParamsGet(params, UserKey)
           user == JsonParseUser(userParam)
       IN IF Falsy(hash) THEN Invalid
          ELSE IF ~HashMatches(hash, params, telegramBotToken) THEN Invalid
          ELSE IF Falsy(userParam) THEN Invalid
          ELSE IF ~user.ok THEN Invalid
          ELSE [valid |-> TRUE,
                userId |-> user.id,
                username |-> IF user.username # "" THEN user.username
                             ELSE IF user.first_name # "" THEN user.first_name
                             ELSE Placeholder]


(***************************************************************************)
(* services/google-sheets: the USERS and NATIONAL_ID_DATA sheets.  A sheet *)
(* is the sequence of its data rows (row 2 onwards, below the header); a   *)
(* lookup result is a sequence of at most one record (empty for null).     *)
(* The Arabic values of the status and center enums are written in Latin   *)
(* letters.                                                                *)
(***************************************************************************)
Active == "active"
Inactive == "inactive"

RemoveAt(seq, k) ==
  IF k \in 1..Len(seq)
  THEN SubSeq(seq, 1, k - 1) \o SubSeq(seq, k + 1, Len(seq))
  ELSE seq

\* rows.map(row => ({ userId, username, center, status, dateAdded }))
getAllRepresentatives(rows) ==
  [i \in 1..Len(rows) |->
     [userId |-> rows[i].userId,
      username |-> rows[i].username,
      center |-> IF rows[i].center = "" THEN "Tima" ELSE rows[i].center,
      status |-> IF rows[i].status = "" THEN Active ELSE rows[i].status,
      dateAdded |-> rows[i].dateAdded]]

\* reps.find(r => r.userId === userId) || null
getRepresentativeByUserId(rows, userId) ==
  LET reps == getAllRepresentatives(rows)
      i == FindIndex([k \in DOMAIN reps |-> reps[k].userId = userId])
  IN IF i = 0 THEN <<>> ELSE <<reps[i]>>

\* The row addRepresentative appends.
addRepresentative(rows, rep, dateAdded) ==
  Append(rows, [userId |-> rep.userId, username |-> rep.username,
                center |-> rep.center, status |-> rep.status,
                dateAdded |-> dateAdded])

\* deleteRepresentative: rowIndex is the 0-based position of the first
\* match in column A of the sheet, header row included, which for data row
\* d is d; the sheet rows from startIndex rowIndex + 1 to endIndex
\* rowIndex + 2 (0-based, end excluded) are deleted, which is data row d + 1.
deleteRepresentative(rows, userId) ==
  LET rowIndex == FindIndex([k \in DOMAIN rows |-> rows[k].userId = userId])
      startIndex == rowIndex + 1
  IN IF rowIndex = 0 THEN rows ELSE RemoveAt(rows, startIndex)

\* rows.map(row => ({ name, nationalId, insertedByUserId, ... }))
getAllCards(rows) ==
  [i \in 1..Len(rows) |->
     [name |-> rows[i].name,
      nationalId |-> rows[i].nationalId,
      insertedByUserId |-> rows[i].insertedByUserId,
      insertedByUsername |-> rows[i].insertedByUsername,
      center |-> IF rows[i].center = "" THEN "Tima" ELSE rows[i].center,
      insertionDate |-> rows[i].insertionDate]]

\* A lookup that never finds a card.
getNoCard(rows, nationalId) == <<>>

\* A lookup that returns the last card with the identifier.
getLastCardByNationalId(rows, nationalId) ==
  LET cards == getAllCards(rows)
      hits == {k \in DOMAIN cards : cards[k].nationalId = nationalId}
  IN IF hits = {} THEN <<>> ELSE <<cards[CHOOSE i \in hits : \A j \in hits : j <= i]>>

\* cards.find(c => c.nationalId === nationalId) || null
getCardByNationalId(rows, nationalId) ==
  LET cards == getAllCards(rows)
      i == FindIndex([k \in DOMAIN cards |-> cards[k].nationalId = nationalId])
  IN IF i = 0 THEN <<>> ELSE <<cards[i]>>

\* A write that puts the row in place of the last one.
overwriteLastCard(rows, card, insertionDate) ==
  Append(SubSeq(rows, 1, Len(rows) - 1),
         [name |-> card.name,
          nationalId |-> card.nationalId,
          insertedByUserId |-> card.insertedByUserId,
          insertedByUsername |-> card.insertedByUsername,
          center |-> card.center,
          insertionDate |-> insertionDate])

\* An insert that skips an identifier the sheet already holds.
addCardIfAbsent(rows, card, insertionDate) ==
  IF \E i \in DOMAIN rows : rows[i].nationalId = card.nationalId THEN rows
  ELSE Append(rows, [name |-> card.name,
                     nationalId |-> card.nationalId,
                     insertedByUserId |-> card.insertedByUserId,
                     insertedByUsername |-> card.insertedByUsername,
                     center |-> card.center,
                     insertionDate |-> insertionDate])

\* The row addCard appends.
addCard(rows, card, insertionDate) ==
  Append(rows, [name |-> card.name,
                nationalId |-> card.nationalId,
                insertedByUserId |-> card.insertedByUserId,
                insertedByUsername |-> card.insertedByUsername,
                center |-> card.center,
                insertionDate |-> insertionDate])


(***************************************************************************)
(* Inputs of the model: launch payloads, uploaded files, outcomes of the   *)
(* inference call.                                                         *)
(***************************************************************************)
BotToken == "bot-token"
OtherToken == "other-token"

\* The canonical string of the launch payload protocol: the pairs sorted
\* by key in byte order, as key=value lines joined by \n.
byteOrderCanonical(params) ==
  LET sorted == StableSort(params, "codeUnits")
  IN Join([i \in 1..Len(sorted) |-> sorted[i][1] \o <<"=">> \o sorted[i][2]],
          <<"\n">>)

\* The hash the chat platform attaches to the pairs it signs.
TelegramSign(pairs, token) == Hmac(SecretKey(token), byteOrderCanonical(pairs))

\* The pairs with their hash pair inserted after the first at pairs.
WithHash(pairs, hash, at) ==
  SubSeq(pairs, 1, at) \o <<(<<HashKey, hash>>)>> \o SubSeq(pairs, at + 1, Len(pairs))

UserAli == <<"{", "id:101", "username:ali", "}">>
UserOmar == <<"{", "id:102", "first_name:Al", "}">>
AuthDate == <<(<<"a">>), (<<"1">>)>>

PairsOf(user) == <<(<<UserKey, user>>), AuthDate>>

Signed(user, token, at) == WithHash(PairsOf(user), TelegramSign(PairsOf(user), token), at)

\* The requests the model submits: launch payload and uploaded file.
PipelineRequests ==
  { [initData |-> Signed(UserAli, BotToken, 2), file |-> "image/jpeg"],
    [initData |-> Signed(UserOmar, BotToken, 0), file |-> "image/jpeg"],
    [initData |-> Signed(UserAli, BotToken, 2), file |-> "none"],
    [initData |-> Signed(UserAli, BotToken, 2), file |-> "text/plain"],
    [initData |-> Signed(UserAli, OtherToken, 2), file |-> "image/jpeg"],
    [initData |-> Signed(UserAli, OtherToken, 2), file |-> "none"],
    [initData |-> PairsOf(UserAli), file |-> "image/jpeg"],
    [initData |-> <<>>, file |-> "image/jpeg"] }

Ali == <<"A", "l", "i">>
HassanMahmoudSaeed ==
  <<"H", "a", "s", "s", "a", "n", " ", "M", "a", "h", "m", "o", "u", "d", " ",
    "S", "a", "e", "e", "d">>
Mona == <<"M", "o", "n", "a">>
Adel == <<"A", "d", "e", "l">>

IdX == <<"2", "9", "5", "0", "1", "0", "1", "1", "2", "3", "4", "5", "6", "7">>
IdY == <<"3", "0", "1", "0", "5", "2", "5", "1", "2", "3", "4", "5", "6", "7">>
Data(firstLine, secondLine, additionalLines, nationalId) ==
  [firstLine |-> firstLine, secondLine |-> secondLine,
   additionalLines |-> additionalLines, nationalId |-> nationalId]

Resolves(rawJson, data) ==
  [kind |-> "resolves", message |-> "", rawJson |-> rawJson, data |-> data]

NoData == Data(Undefined, Undefined, <<>>, Undefined)

TimerFires == [kind |-> "timeout", message |-> "", rawJson |-> "empty", data |-> NoData]

Rejects(message) ==
  [kind |-> "rejects", message |-> message, rawJson |-> "empty", data |-> NoData]

PipelineOutcomes ==
  { Resolves("object", Data(Ali, HassanMahmoudSaeed, <<>>, IdX)),
    Resolves("object", Data(Mona, Adel, <<>>, IdY)),
    Resolves("object", Data(Mona, Adel, <<>>, SubSeq(IdY, 1, 13))),
    Resolves("invalid", NoData),
    TimerFires }


(***************************************************************************)
(* State.                                                                  *)
(***************************************************************************)
VARIABLES
  usersSheet,     \* data rows of the USERS sheet
  cardsSheet,     \* data rows of the NATIONAL_ID_DATA sheet
  clock,          \* server time, read by new Date()
  pc,             \* per request: the await the handler is suspended at
  req,            \* per request: req.body.initData and req.file
  telegramData,   \* per request: result of verifyAndExtractTelegramData
  rep,            \* per request: result of the registry lookup
  image,          \* per request: image passed to the inference call
  inference,      \* per request: what the race of withTimeout settled with
  extractedData,  \* per request: result of processIdCardImage
  existing,       \* per request: result of the duplicate lookup
  res,            \* per request: the response sent
  calls,          \* per request: calls issued so far, by collaborator
  atStart,        \* per request: the card rows when the request arrived
  overlapped,     \* per request: another request was in flight meanwhile
  submissions,    \* requests received so far
  adminOps,       \* registry changes made so far
  probe           \* input and result of a function applied on its own

vars ==
  <<usersSheet, cardsSheet, clock, pc, req, telegramData, rep, image, inference,
    extractedData, existing, res, calls, atStart, overlapped, submissions,
    adminOps, probe>>

Requests == {"r1", "r2"}

Terminal == {"Succeeded", "Duplicated", "Failed"}
InFlight ==
  {"Authorizing", "Preprocessing", "Extracting", "CheckingDuplicate",
   "ResolvingSubmitter", "Committing"}

NoRequest == [initData |-> <<>>, file |-> "none"]
NoExtraction == ExtractionError("", 0)
NoOutcome == [kind |-> "none", message |-> "", rawJson |-> "empty", data |-> NoData]
NoCalls == [registry |-> 0, inference |-> 0, lookup |-> 0, insert |-> 0]
NoResponse ==
  [status |-> 0, success |-> "absent", isDuplicate |-> "absent", name |-> <<>>,
   nationalId |-> <<>>, existingCard |-> <<>>, error |-> "", len |-> 0]

\* res.status(status).json({ error }) and, from the catch block,
\* res.status(500).json({ success: false, error })
ErrorResponse(status, success, error, n) ==
  [NoResponse EXCEPT !.status = status, !.success = success, !.error = error,
                     !.len = n]

\* res.json({ isDuplicate: true, existingCard })
DuplicateResponse(card) ==
  [NoResponse EXCEPT !.status = 200, !.isDuplicate = "true",
                     !.existingCard = <<card>>]

\* res.json({ success: true, isDuplicate: false, name, nationalId })
SuccessResponse(name, nationalId) ==
  [NoResponse EXCEPT !.status = 200, !.success = "true", !.isDuplicate = "false",
                     !.name = name, !.nationalId = nationalId]

NoProbe == [stage |-> "none"]

InitialUsers ==
  << [userId |-> "101", username |-> "ali", center |-> "Tima",
      status |-> Active, dateAdded |-> 0],
     [userId |-> "102", username |-> "omar", center |-> "Tahta",
      status |-> Inactive, dateAdded |-> 0] >>

PipelineInit ==
  /\ usersSheet = InitialUsers
  /\ cardsSheet = <<>>
  /\ clock = 1
  /\ pc = [r \in Requests |-> "Idle"]
  /\ req = [r \in Requests |-> NoRequest]
  /\ telegramData = [r \in Requests |-> Invalid]
  /\ rep = [r \in Requests |-> <<>>]
  /\ image = [r \in Requests |-> "none"]
  /\ inference = [r \in Requests |-> NoOutcome]
  /\ extractedData = [r \in Requests |-> NoExtraction]
  /\ existing = [r \in Requests |-> <<>>]
  /\ res = [r \in Requests |-> NoResponse]
  /\ calls = [r \in Requests |-> NoCalls]
  /\ atStart = [r \in Requests |-> <<>>]
  /\ overlapped = [r \in Requests |-> FALSE]
  /\ submissions = 0
  /\ adminOps = 0

Init == PipelineInit /\ probe = NoProbe


(***************************************************************************)
(* POST /api/process-card.  One action per stretch of the handler between  *)
(* two awaits; a call to a sheet or to the inference service takes effect  *)
(* in the action that resumes the handler.                                 *)
(***************************************************************************)
\* A registry read that answers from the rows the server started with.
ReadCachedUsersSheet == InitialUsers

\* sheets.spreadsheets.values.get on USERS!A2:E, through a client that is
\* built anew for every call.
ReadUsersSheet == usersSheet

\* sheets.spreadsheets.values.get on NATIONAL_ID_DATA!A2:F
ReadCardsSheet == cardsSheet

Respond(r, state, response) ==
  /\ pc' = [pc EXCEPT ![r] = state]
  /\ res' = [res EXCEPT ![r] = response]

Issue(r, collaborator) ==
  calls' = [calls EXCEPT ![r][collaborator] = @ + 1]

\* The request arrives: multer's fileFilter, then the handler up to the
\* first await.
Receive(r, initData, file) ==
  /\ pc[r] \in {"Idle"} \cup Terminal
  /\ submissions < MaxSubmissions
  /\ \E data \in {verifyAndExtractTelegramData(initData, BotToken)} :
     \E rejected \in {file # "none" /\ file # "image/jpeg"} :
     \E forbidden \in {~data.valid \/ data.userId = "" \/ data.username = ""} :
     \E proceeds \in {~rejected /\ ~forbidden /\ file # "none"} :
     /\ submissions' = submissions + 1
     /\ req' = [req EXCEPT ![r] = [initData |-> initData, file |-> file]]
     /\ telegramData' = [telegramData EXCEPT ![r] = IF rejected THEN Invalid ELSE data]
     /\ rep' = [rep EXCEPT ![r] = <<>>]
     /\ image' = [image EXCEPT ![r] = "none"]
     /\ inference' = [inference EXCEPT ![r] = NoOutcome]
     /\ extractedData' = [extractedData EXCEPT ![r] = NoExtraction]
     /\ existing' = [existing EXCEPT ![r] = <<>>]
     /\ atStart' = [atStart EXCEPT ![r] = cardsSheet]
     /\ overlapped' =
          [q \in Requests |->
             IF q = r THEN proceeds /\ \E o \in Requests \ {r} : pc[o] \in InFlight
             ELSE overlapped[q] \/ (proceeds /\ pc[q] \in InFlight)]
     /\ calls' = [calls EXCEPT ![r] =
                    [NoCalls EXCEPT !.registry = IF proceeds THEN 1 ELSE 0]]
     /\ IF rejected
        THEN Respond(r, "Failed", ErrorResponse(500, "absent", "FILE_FILTER", 0))
        ELSE IF forbidden
        THEN Respond(r, "Failed", ErrorResponse(403, "absent", "INVALID_SIGNATURE", 0))
        ELSE IF file = "none"
        THEN Respond(r, "Failed", ErrorResponse(400, "absent", "NO_IMAGE", 0))
        ELSE Respond(r, "Authorizing", NoResponse)
     /\ UNCHANGED <<usersSheet, cardsSheet, clock, adminOps, probe>>

\* A gate that admits every registered caller.
IsRegistered(found) == found # <<>>

\* !(!rep || rep.status !== 'active')
IsAuthorized(found) == found # <<>> /\ found[1].status = Active

\* getRepresentativeByUserId(userId) returns: the authorization gate.
Authorize(r) ==
  /\ pc[r] = "Authorizing"
  /\ \E found \in {getRepresentativeByUserId(ReadUsersSheet, telegramData[r].userId)} :
     /\ rep' = [rep EXCEPT ![r] = found]
     /\ IF ~IsAuthorized(found)
        THEN /\ Respond(r, "Failed", ErrorResponse(403, "absent", "UNAUTHORIZED", 0))
             /\ UNCHANGED calls
        ELSE /\ Respond(r, "Preprocessing", NoResponse)
             /\ UNCHANGED calls
     /\ UNCHANGED <<usersSheet, cardsSheet, clock, req, telegramData, image,
                    inference, extractedData, existing, atStart, overlapped,
                    submissions, adminOps, probe>>

\* A preprocessing whose exception reaches the catch block of the route.
PreprocessOrFail(r, sharpThrows) ==
  /\ pc[r] = "Preprocessing"
  /\ IF sharpThrows
     THEN /\ Respond(r, "Failed", ErrorResponse(500, "false", "PROCESSING_FAILED", 0))
          /\ UNCHANGED <<image, calls>>
     ELSE /\ image' = [image EXCEPT ![r] = "processed"]
          /\ pc' = [pc EXCEPT ![r] = "Extracting"]
          /\ Issue(r, "inference")
          /\ UNCHANGED res
  /\ UNCHANGED <<usersSheet, cardsSheet, clock, req, telegramData, rep,
                 inference, extractedData, existing, atStart, overlapped,
                 submissions, adminOps, probe>>

\* preprocessImage returns the processed image, or the original one when
\* a step of it throws; the inference call is issued with the result.
Preprocess(r, sharpThrows) ==
  /\ pc[r] = "Preprocessing"
  /\ image' = [image EXCEPT ![r] = IF sharpThrows THEN "original" ELSE "processed"]
  /\ pc' = [pc EXCEPT ![r] = "Extracting"]
  /\ Issue(r, "inference")
  /\ UNCHANGED <<usersSheet, cardsSheet, clock, req, telegramData, rep,
                 inference, extractedData, existing, res, atStart, overlapped,
                 submissions, adminOps, probe>>

\* A handler that calls processIdCardImage again when it has thrown.
SettleWithRetry(r, outcome) ==
  /\ pc[r] = "Extracting"
  /\ \E result \in {ProcessOutcome(outcome)} :
     /\ extractedData' = [extractedData EXCEPT ![r] = result]
     /\ inference' = [inference EXCEPT ![r] = outcome]
     /\ IF result.ok
        THEN /\ Respond(r, "CheckingDuplicate", NoResponse)
             /\ Issue(r, "lookup")
             /\ image' = [image EXCEPT ![r] = "none"]
        ELSE IF calls[r].inference < 2
        THEN /\ Issue(r, "inference")
             /\ UNCHANGED <<pc, res, image>>
        ELSE /\ Respond(r, "Failed",
                        ErrorResponse(500, "false", result.error, result.len))
             /\ image' = [image EXCEPT ![r] = "none"]
             /\ UNCHANGED calls
     /\ UNCHANGED <<usersSheet, cardsSheet, clock, req, telegramData, rep,
                    existing, atStart, overlapped, submissions, adminOps, probe>>

\* The race of withTimeout settles and processIdCardImage runs to its end.
Settle(r, outcome) ==
  /\ pc[r] = "Extracting"
  /\ \E result \in {ProcessOutcome(outcome)} :
     /\ extractedData' = [extractedData EXCEPT ![r] = result]
     /\ image' = [image EXCEPT ![r] = "none"]
     /\ inference' = [inference EXCEPT ![r] = outcome]
     /\ IF result.ok
        THEN /\ Respond(r, "CheckingDuplicate", NoResponse)
             /\ Issue(r, "lookup")
        ELSE /\ Respond(r, "Failed",
                        ErrorResponse(500, "false", result.error, result.len))
             /\ UNCHANGED calls
     /\ UNCHANGED <<usersSheet, cardsSheet, clock, req, telegramData, rep,
                    existing, atStart, overlapped, submissions, adminOps, probe>>

\* A handler that inserts whatever the duplicate lookup returned.
CheckDuplicateThenInsert(r) ==
  /\ pc[r] = "CheckingDuplicate"
  /\ existing' =
       [existing EXCEPT ![r] = getCardByNationalId(ReadCardsSheet, extractedData[r].nationalId)]
  /\ pc' = [pc EXCEPT ![r] = "Committing"]
  /\ Issue(r, "insert")
  /\ UNCHANGED <<usersSheet, cardsSheet, clock, req, telegramData, rep, image,
                 inference, extractedData, res, atStart, overlapped,
                 submissions, adminOps, probe>>

\* getCardByNationalId(extractedData.nationalId) returns.
CheckDuplicate(r) ==
  /\ pc[r] = "CheckingDuplicate"
  /\ \E found \in {getCardByNationalId(ReadCardsSheet, extractedData[r].nationalId)} :
     /\ existing' = [existing EXCEPT ![r] = found]
     /\ IF found # <<>>
        THEN /\ pc' = [pc EXCEPT ![r] = "ResolvingSubmitter"]
             /\ Issue(r, "registry")
        ELSE /\ pc' = [pc EXCEPT ![r] = "Committing"]
             /\ Issue(r, "insert")
     /\ UNCHANGED <<usersSheet, cardsSheet, clock, req, telegramData, rep, image,
                    inference, extractedData, res, atStart, overlapped,
                    submissions, adminOps, probe>>

\* A duplicate response that reports the card as it is stored.
ReportStoredCard(r) ==
  /\ pc[r] = "ResolvingSubmitter"
  /\ Respond(r, "Duplicated", DuplicateResponse(existing[r][1]))
  /\ UNCHANGED <<usersSheet, cardsSheet, clock, req, telegramData, rep, image,
                 inference, extractedData, existing, calls, atStart, overlapped,
                 submissions, adminOps, probe>>

\* getRepresentativeByUserId(existing.insertedByUserId) returns: the
\* duplicate response.
ResolveSubmitter(r) ==
  LET originalRep ==
        getRepresentativeByUserId(ReadUsersSheet, existing[r][1].insertedByUserId)
      originalUsername ==
        IF originalRep # <<>> THEN originalRep[1].username
        ELSE existing[r][1].insertedByUsername
  IN /\ pc[r] = "ResolvingSubmitter"
     /\ Respond(r, "Duplicated",
                DuplicateResponse(
                  [existing[r][1] EXCEPT !.insertedByUsername = originalUsername]))
     /\ UNCHANGED <<usersSheet, cardsSheet, clock, req, telegramData, rep, image,
                    inference, extractedData, existing, calls, atStart, overlapped,
                    submissions, adminOps, probe>>

\* An insert that names the submitter as the registry does.
CommitWithRegistryName(r) ==
  /\ pc[r] = "Committing"
  /\ cardsSheet' =
       addCard(cardsSheet,
               [name |-> extractedData[r].name,
                nationalId |-> extractedData[r].nationalId,
                insertedByUserId |-> rep[r][1].userId,
                insertedByUsername |-> rep[r][1].username,
                center |-> rep[r][1].center],
               clock)
  /\ clock' = clock + 1
  /\ Respond(r, "Succeeded",
             SuccessResponse(extractedData[r].name, extractedData[r].nationalId))
  /\ UNCHANGED <<usersSheet, req, telegramData, rep, image, inference,
                 extractedData, existing, calls, atStart, overlapped, submissions,
                 adminOps, probe>>

\* addCard returns: the row is appended and the success response sent.
Commit(r) ==
  /\ pc[r] = "Committing"
  /\ cardsSheet' =
       addCard(cardsSheet,
               [name |-> extractedData[r].name,
                nationalId |-> extractedData[r].nationalId,
                insertedByUserId |-> telegramData[r].userId,
                insertedByUsername |-> telegramData[r].username,
                center |-> rep[r][1].center],
               clock)
  /\ clock' = clock + 1
  /\ Respond(r, "Succeeded",
             SuccessResponse(extractedData[r].name, extractedData[r].nationalId))
  /\ UNCHANGED <<usersSheet, req, telegramData, rep, image, inference,
                 extractedData, existing, calls, atStart, overlapped, submissions,
                 adminOps, probe>>

\* A sheet call that rejects after the append was applied.
StorageFailAfterAppend(r) ==
  /\ pc[r] \in {"Authorizing", "CheckingDuplicate", "ResolvingSubmitter", "Committing"}
  /\ Respond(r, "Failed",
             ErrorResponse(500, "false",
                           IF pc[r] = "Committing" THEN "SHEETS_API_ERROR"
                           ELSE "DATABASE_CONNECTION_FAILED", 0))
  /\ IF pc[r] = "Committing"
     THEN /\ cardsSheet' =
               addCard(cardsSheet,
                       [name |-> extractedData[r].name,
                        nationalId |-> extractedData[r].nationalId,
                        insertedByUserId |-> telegramData[r].userId,
                        insertedByUsername |-> telegramData[r].username,
                        center |-> rep[r][1].center],
                       clock)
          /\ clock' = clock + 1
     ELSE UNCHANGED <<cardsSheet, clock>>
  /\ UNCHANGED <<usersSheet, req, telegramData, rep, image, inference,
                 extractedData, existing, calls, atStart, overlapped, submissions,
                 adminOps, probe>>

\* A call to a sheet rejects: the catch block answers 500.
StorageFail(r) ==
  /\ pc[r] \in {"Authorizing", "CheckingDuplicate", "ResolvingSubmitter", "Committing"}
  /\ Respond(r, "Failed",
             ErrorResponse(500, "false",
                           IF pc[r] = "Committing" THEN "SHEETS_API_ERROR"
                           ELSE "DATABASE_CONNECTION_FAILED", 0))
  /\ UNCHANGED <<usersSheet, cardsSheet, clock, req, telegramData, rep, image,
                 inference, extractedData, existing, calls, atStart, overlapped,
                 submissions, adminOps, probe>>

\* A late response that the handler picks up as if the race were still open.
LateResolveResumes(r, response) ==
  /\ inference[r] = TimerFires
  /\ response.kind = "resolves"
  /\ inference' = [inference EXCEPT ![r] = [response EXCEPT !.kind = "timeout"]]
  /\ extractedData' = [extractedData EXCEPT ![r] = ProcessOutcome(response)]
  /\ Respond(r, "CheckingDuplicate", NoResponse)
  /\ Issue(r, "lookup")
  /\ UNCHANGED <<usersSheet, cardsSheet, clock, req, telegramData, rep, image,
                 existing, atStart, overlapped, submissions, adminOps, probe>>

\* withTimeout after the timer has won the race: the inference call, which
\* nothing cancels, resolves; no continuation is attached to it any more,
\* so the response is dropped.  inference keeps kind "timeout" and takes
\* the text and data of the late response.
LateResolve(r, response) ==
  /\ inference[r] = TimerFires
  /\ response.kind = "resolves"
  /\ inference' = [inference EXCEPT ![r] = [response EXCEPT !.kind = "timeout"]]
  /\ UNCHANGED <<usersSheet, cardsSheet, clock, pc, req, telegramData, rep, image,
                 extractedData, existing, res, calls, atStart, overlapped,
                 submissions, adminOps, probe>>

(***************************************************************************)
(* Changes of the registry, each taken as one step.                        *)
(***************************************************************************)
unchangedByAdmin ==
  UNCHANGED <<cardsSheet, pc, req, telegramData, rep, image, inference,
              extractedData, existing, res, calls, atStart, overlapped, submissions,
              probe>>

\* POST /api/representatives for a userId the registry does not hold.
AdminAdd(repData) ==
  /\ adminOps < MaxAdminOps
  /\ getRepresentativeByUserId(usersSheet, repData.userId) = <<>>
  /\ usersSheet' = addRepresentative(usersSheet, repData, clock)
  /\ clock' = clock + 1
  /\ adminOps' = adminOps + 1
  /\ unchangedByAdmin

\* DELETE /api/representatives/:userId
AdminDelete(userId) ==
  /\ adminOps < MaxAdminOps
  /\ usersSheet' = deleteRepresentative(usersSheet, userId)
  /\ adminOps' = adminOps + 1
  /\ UNCHANGED clock
  /\ unchangedByAdmin

\* The status cell of a row is edited in the sheet.
SheetEditStatus(i, status) ==
  /\ adminOps < MaxAdminOps
  /\ i \in 1..Len(usersSheet)
  /\ usersSheet[i].status # status
  /\ usersSheet' = [usersSheet EXCEPT ![i].status = status]
  /\ adminOps' = adminOps + 1
  /\ UNCHANGED clock
  /\ unchangedByAdmin

\* The center cell of a row is edited in the sheet.
SheetEditCenter(i, center) ==
  /\ adminOps < MaxAdminOps
  /\ i \in 1..Len(usersSheet)
  /\ usersSheet[i].center # center
  /\ usersSheet' = [usersSheet EXCEPT ![i].center = center]
  /\ adminOps' = adminOps + 1
  /\ UNCHANGED clock
  /\ unchangedByAdmin

NewRepresentatives ==
  { [userId |-> "102", username |-> "abu omar", center |-> "Juhayna",
     status |-> Active],
    [userId |-> "103", username |-> "mona", center |-> "Tahta",
     status |-> Inactive] }

Next ==
  \/ \E r \in Requests, q \in PipelineRequests : Receive(r, q.initData, q.file)
  \/ \E r \in Requests : Authorize(r)
  \/ \E r \in Requests, t \in BOOLEAN : Preprocess(r, t)
  \/ \E r \in Requests, o \in PipelineOutcomes : Settle(r, o)
  \/ \E r \in Requests : CheckDuplicate(r)
  \/ \E r \in Requests : ResolveSubmitter(r)
  \/ \E r \in Requests : Commit(r)
  \/ \E r \in Requests : StorageFail(r)
  \/ \E n \in NewRepresentatives : AdminAdd(n)
  \/ \E u \in {"101", "102"} : AdminDelete(u)
  \/ \E i \in 1..2, st \in {Active, Inactive} : SheetEditStatus(i, st)

Spec == Init /\ [][Next]_vars


(***************************************************************************)
(* Properties of the pipeline (Spec).                                      *)
(***************************************************************************)
\* C1: in every reachable state no two rows of the card sheet hold the
\* same nationalId, whatever the interleaving of the submissions.
C1_UniqueNationalId ==
  \A i, j \in DOMAIN cardsSheet :
    i # j => cardsSheet[i].nationalId # cardsSheet[j].nationalId

HoldsAtStart(r, nationalId) ==
  \E i \in DOMAIN atStart[r] : atStart[r][i].nationalId = nationalId

\* C2: a submission that overlapped no other one, passed the gate and
\* yielded an identifier that a card committed before its arrival holds,
\* ends in the duplicate response (isDuplicate true, existingCard.nationalId
\* the identifier) and leaves the card sheet with as many rows as at its
\* arrival; the only other end is the 500 answer to a sheet call that
\* failed, which leaves the count unchanged as well.
C2_Idempotence ==
  [][\A r \in Requests :
       ( /\ pc[r] \notin Terminal
         /\ pc'[r] \in Terminal
         /\ ~overlapped[r]
         /\ extractedData'[r].ok
         /\ HoldsAtStart(r, extractedData'[r].nationalId) ) =>
         /\ Len(cardsSheet') = Len(atStart[r])
         /\ calls'[r].insert = 0
         /\ \/ /\ pc'[r] = "Duplicated"
               /\ res'[r].status = 200
               /\ res'[r].isDuplicate = "true"
               /\ res'[r].existingCard[1].nationalId = extractedData'[r].nationalId
            \/ /\ pc'[r] = "Failed"
               /\ res'[r].status = 500
               /\ res'[r].error = "DATABASE_CONNECTION_FAILED"]_vars

\* A submission that overlapped no other one was answered as the duplicate
\* of a card committed before it arrived.
C2_Witness ==
  \E r \in Requests :
    /\ pc[r] = "Duplicated"
    /\ ~overlapped[r]
    /\ HoldsAtStart(r, IdX)
    /\ extractedData[r].nationalId = IdX
    /\ res[r].isDuplicate = "true"
    /\ res[r].existingCard[1].nationalId = IdX
    /\ Len(cardsSheet) = Len(atStart[r])

\* The payload carries a hash, and the HMAC of the canonical string of its
\* other pairs under the key derived from the bot token equals it.
HashRecomputedAndEqual(initData) ==
  /\ initData # <<>>
  /\ ~Falsy(ParamsGet(initData, HashKey))
  /\ ParamsGet(initData, HashKey) =
       Hmac(SecretKey(BotToken), sortedParams(ParamsDelete(initData, HashKey)))

\* C3: a request that has issued a registry lookup, an inference call, a
\* duplicate lookup or an insert, or that is past the verification, carries
\* a payload whose recomputed HMAC equals the supplied hash; a request with
\* an empty payload, no hash or another hash has failed without issuing
\* any of those calls.
C3_NoBypass ==
  \A r \in Requests :
  \A equal \in {HashRecomputedAndEqual(req[r].initData)} :
    /\ (calls[r] # NoCalls \/ pc[r] \in InFlight \cup {"Succeeded", "Duplicated"}) =>
         /\ equal
         /\ telegramData[r].valid
    /\ (pc[r] # "Idle" /\ ~equal) =>
         /\ pc[r] = "Failed"
         /\ res[r].status \in {403, 500}
         /\ res[r].success # "true"
         /\ calls[r] = NoCalls
         /\ rep[r] = <<>>
         /\ existing[r] = <<>>

\* A payload signed under another token was refused with 403 while a
\* verified submission went through to its commit.
C3_Witness ==
  \E r, q \in Requests :
    /\ req[r].initData = Signed(UserAli, OtherToken, 2)
    /\ req[r].file = "image/jpeg"
    /\ pc[r] = "Failed"
    /\ res[r].status = 403
    /\ pc[q] = "Succeeded"

\* The registry lookup of the request has returned.
GateAnswered(r) ==
  /\ pc[r] \notin {"Idle", "Authorizing"}
  /\ calls[r].registry >= 1
  /\ ~(pc[r] = "Failed" /\ res[r].error = "DATABASE_CONNECTION_FAILED"
       /\ calls[r].inference = 0)

\* C6: a request with a valid signature whose registry lookup returned no
\* row, or a row whose status is not active, has been answered 403 and has
\* issued no inference call, no duplicate lookup and no insert.
C6_AuthorizationDenied ==
  \A r \in Requests :
    ( /\ telegramData[r].valid
      /\ GateAnswered(r)
      /\ (rep[r] = <<>> \/ rep[r][1].status # Active) ) =>
      /\ pc[r] = "Failed"
      /\ res[r].status = 403
      /\ res[r].error = "UNAUTHORIZED"
      /\ calls[r].inference = 0
      /\ calls[r].lookup = 0
      /\ calls[r].insert = 0

\* A caller with a valid signature and an inactive registry row was
\* answered 403.
C6_Witness ==
  \E r \in Requests :
    /\ telegramData[r].valid
    /\ rep[r] # <<>>
    /\ rep[r][1].status = Inactive
    /\ pc[r] = "Failed"
    /\ res[r].status = 403
    /\ calls[r].inference = 0

\* No row of the registry gives the user an active status.
Deactivated(userId) ==
  \A i \in DOMAIN usersSheet :
    usersSheet[i].userId = userId => usersSheet[i].status # Active

\* C7: whenever the gate of a request is decided while the registry holds
\* no active row for its caller, the request fails there, with 403 (or with
\* the 500 answer to a registry read that failed), and issues no inference
\* call, whatever earlier requests of the same caller were granted.
C7_RegistryReread ==
  [][\A r \in Requests :
       ( /\ pc[r] = "Authorizing"
         /\ pc'[r] # "Authorizing"
         /\ Deactivated(telegramData[r].userId) ) =>
         /\ pc'[r] = "Failed"
         /\ calls'[r].inference = 0
         /\ \/ res'[r].status = 403 /\ res'[r].error = "UNAUTHORIZED"
            \/ res'[r].status = 500 /\ res'[r].error = "DATABASE_CONNECTION_FAILED"]_vars

\* A caller whose earlier submission was granted and committed was refused
\* with 403 once the registry row had been made inactive.
C7_Witness ==
  \E r, q \in Requests :
    /\ r # q
    /\ telegramData[q].userId = "101"
    /\ telegramData[r].userId = "101"
    /\ rep[q] # <<>>
    /\ rep[q][1].status = Active
    /\ pc[q] = "Succeeded"
    /\ ~overlapped[r]
    /\ Deactivated("101")
    /\ rep[r] # <<>>
    /\ rep[r][1].status = Inactive
    /\ pc[r] = "Failed"
    /\ res[r].status = 403
    /\ res[r].error = "UNAUTHORIZED"


\* C13: a submission issues at most one inference call, one duplicate
\* lookup and one insert, and once it has failed (timeout, malformed
\* response, missing field, validation error, storage error, refusal) it
\* issues no further call and its response stays as sent, until the next
\* request arrives.
C13_SingleAttempt ==
  [][\A r \in Requests :
       /\ calls'[r].inference <= 1
       /\ calls'[r].lookup <= 1
       /\ calls'[r].insert <= 1
       /\ (pc[r] = "Failed" /\ submissions' = submissions) =>
            /\ pc'[r] = "Failed"
            /\ calls'[r] = calls[r]
            /\ res'[r] = res[r]
            /\ extractedData'[r] = extractedData[r]]_vars

\* A submission failed on its insert, having issued one inference call, one
\* lookup and one insert, while the other one failed on its inference
\* response after one inference call.
C13_Witness ==
  \E r, q \in Requests :
    /\ pc[r] = "Failed"
    /\ res[r].error = "SHEETS_API_ERROR"
    /\ calls[r] = [registry |-> 1, inference |-> 1, lookup |-> 1, insert |-> 1]
    /\ pc[q] = "Failed"
    /\ res[q].error = "PARSE_FAILED"
    /\ calls[q] = [registry |-> 1, inference |-> 1, lookup |-> 0, insert |-> 0]

\* Every field of the row is filled.
CompleteRecord(row) ==
  /\ row.name # <<>>
  /\ row.nationalId # <<>>
  /\ row.insertedByUserId # ""
  /\ row.insertedByUsername # ""
  /\ row.center # ""
  /\ row.insertionDate > 0

\* The step ends a submission of r in the given state.
Ends(r, state) == pc[r] # state /\ pc'[r] = state

\* C14: the card rows change only in the step that ends a submission with
\* the success response, and then by one complete row appended; the step
\* that ends a submission as failed (or as a duplicate) changes no row; so
\* a submission that overlapped no other one ends failed with the rows it
\* found on arrival, and ends succeeded with those rows and one more.
C14_NoPartialCommit ==
  [][/\ cardsSheet' # cardsSheet =>
          /\ cardsSheet' = Append(cardsSheet, cardsSheet'[Len(cardsSheet')])
          /\ CompleteRecord(cardsSheet'[Len(cardsSheet')])
          /\ \E r \in Requests :
               /\ pc[r] = "Committing"
               /\ pc'[r] = "Succeeded"
               /\ res'[r].status = 200
               /\ res'[r].success = "true"
     /\ \A r \in Requests :
          /\ (Ends(r, "Failed") \/ Ends(r, "Duplicated")) =>
               /\ cardsSheet' = cardsSheet
               /\ ~overlapped'[r] => cardsSheet' = atStart'[r]
          /\ Ends(r, "Failed") =>
               (res'[r].status \in {400, 403, 500} /\ res'[r].success # "true")
          /\ Ends(r, "Succeeded") =>
               /\ Len(cardsSheet') = Len(cardsSheet) + 1
               /\ ~overlapped[r] => SubSeq(cardsSheet', 1, Len(cardsSheet)) = atStart[r]
     ]_vars

\* A submission that overlapped no other one failed with 500 on its insert
\* and the card rows are the one row it found on arrival.
C14_Witness ==
  \E r \in Requests :
    /\ pc[r] = "Failed"
    /\ res[r].status = 500
    /\ res[r].success = "false"
    /\ res[r].error = "SHEETS_API_ERROR"
    /\ calls[r].insert = 1
    /\ ~overlapped[r]
    /\ Len(atStart[r]) = 1
    /\ cardsSheet = atStart[r]

\* C18: every step keeps every card row in its place with its field
\* values, and adds at most one row at the end.
C18_AppendOnly ==
  [][/\ Len(cardsSheet') \in {Len(cardsSheet), Len(cardsSheet) + 1}
     /\ \A i \in DOMAIN cardsSheet : cardsSheet'[i] = cardsSheet[i]]_vars

\* Two submissions in flight at the same time have each appended a row,
\* and the row of the first one stands as it was committed.
C18_Witness ==
  \E r, q \in Requests :
    /\ r # q
    /\ pc[r] = "Succeeded"
    /\ pc[q] = "Succeeded"
    /\ overlapped[r]
    /\ overlapped[q]
    /\ Len(cardsSheet) = 2
    /\ cardsSheet[1].nationalId = res[r].nationalId
    /\ cardsSheet[1].insertionDate < cardsSheet[2].insertionDate
    /\ cardsSheet[2].nationalId = res[q].nationalId
    /\ cardsSheet[1].nationalId # cardsSheet[2].nationalId


\* The request was refused at the authorization gate.
Refused(r) ==
  /\ pc[r] = "Failed"
  /\ calls[r].registry = 1
  /\ calls[r].inference = 0
  /\ rep[r] = <<>> \/ rep[r][1].status # Active
  /\ res[r].error # "DATABASE_CONNECTION_FAILED"

\* C15: a request that has ended carries one response, whose status is 200
\* when a card was committed or found to be a duplicate, 400 when an
\* authenticated request has no file or a file that is not an image, 403
\* when the launch payload does not verify or the caller is refused by the
\* registry, and 500 when the extraction, the validation or a sheet call
\* failed.
C15_StatusByOutcome ==
  \A r \in Requests :
  \A verified \in {verifyAndExtractTelegramData(req[r].initData, BotToken).valid} :
    pc[r] \in Terminal =>
      /\ res[r].status \in {200, 400, 403, 500}
      /\ pc[r] \in {"Succeeded", "Duplicated"} <=> res[r].status = 200
      /\ (verified /\ req[r].file # "image/jpeg") <=> res[r].status = 400
      /\ (~verified /\ req[r].file = "image/jpeg") => res[r].status = 403
      /\ ~verified => res[r].status \in {400, 403}
      /\ (verified /\ req[r].file = "image/jpeg" /\ Refused(r)) => res[r].status = 403
      /\ (pc[r] = "Failed" /\ verified /\ req[r].file = "image/jpeg" /\ ~Refused(r)) =>
           res[r].status = 500

\* C16: the step that ends preprocessImage never ends the request: it
\* leaves the request at the inference call, issued once, with an image
\* that is the processed one or, when a step of the preprocessing threw,
\* the original one, and no response is sent; a request holding the
\* original image is at its inference call.
C16_PreprocessNeverFails ==
  [][\A r \in Requests :
       /\ (pc[r] = "Preprocessing" /\ pc'[r] # "Preprocessing") =>
            /\ pc'[r] = "Extracting"
            /\ image'[r] \in {"original", "processed"}
            /\ calls'[r].inference = 1
            /\ res'[r] = NoResponse
       /\ image'[r] = "original" =>
            (pc'[r] = "Extracting" /\ calls'[r].inference = 1)]_vars

\* The inference call of a request was issued with the original image,
\* the preprocessing having thrown.
C16_Witness ==
  \E r \in Requests :
    /\ image[r] = "original"
    /\ pc[r] = "Extracting"
    /\ calls[r].inference = 1
    /\ res[r] = NoResponse


(***************************************************************************)
(* Verification runs: the chat platform signs a set of fields, the client  *)
(* sends them in some wire order, possibly after one character of a field  *)
(* was changed, and the server receives the payload.                       *)
(***************************************************************************)
OtherKeys == {<<"a">>, <<"B">>, <<"a", "_">>, <<"h", "a", "s", "x">>}
FieldValue == <<"1", "x">>
TamperChars == {"b", "=", "1", "h"}

Orderings(seq) ==
  LET n == Len(seq)
  IN { [i \in 1..n |-> seq[f[i]]] :
         f \in {g \in [1..n -> 1..n] : \A i, j \in 1..n : g[i] = g[j] => i = j} }

DistinctKeys(fields) ==
  \A i, j \in DOMAIN fields : fields[i][1] = fields[j][1] => i = j

\* The fields the platform signs: the user and up to MaxPairs - 1 others
\* with distinct keys, held in byte order of their keys.
SignedFields ==
  { fields \in
      { StableSort(<<(<<UserKey, UserAli>>)>> \o others, "codeUnits") :
          others \in UNION { [1..n -> {<<k, FieldValue>> : k \in OtherKeys}] :
                               n \in 0..(MaxPairs - 1) } } :
      DistinctKeys(fields) }

\* The signed fields and their hash, in every wire order.
WirePayloads(fields) ==
  Orderings(fields \o <<(<<HashKey, TelegramSign(fields, BotToken)>>)>>)

VerifyProbes ==
  UNION { { [signed |-> fields, original |-> wire, initData |-> wire,
             tampered |-> FALSE] : wire \in WirePayloads(fields) } :
          fields \in SignedFields }

VerifyInit == PipelineInit /\ probe \in VerifyProbes

\* One character of the key (side 1) or the value (side 2) of a pair other
\* than the hash is replaced.
Tamper(i, side, k, c) ==
  /\ pc["r1"] = "Idle"
  /\ ~probe.tampered
  /\ i \in DOMAIN probe.initData
  /\ probe.initData[i][1] # HashKey
  /\ k \in DOMAIN probe.initData[i][side]
  /\ probe.initData[i][side][k] # c
  /\ probe' = [probe EXCEPT !.initData[i][side][k] = c, !.tampered = TRUE]
  /\ UNCHANGED <<usersSheet, cardsSheet, clock, pc, req, telegramData, rep, image,
                 inference, extractedData, existing, res, calls, atStart, overlapped,
                 submissions, adminOps>>

\* The payload is posted with an image.
Submit ==
  /\ pc["r1"] = "Idle"
  /\ Receive("r1", probe.initData, "image/jpeg")

VerifyNext ==
  \/ \E i \in 1..(MaxPairs + 1), side \in 1..2, k \in 1..Len(UserKey), c \in TamperChars :
       Tamper(i, side, k, c)
  \/ Submit

SpecVerify == VerifyInit /\ [][VerifyNext]_vars


(***************************************************************************)
(* Properties of the verification (SpecVerify).                            *)
(***************************************************************************)
\* C4: a payload that verifies, sent with one character of a key or value
\* other than the hash replaced and the hash kept, does not verify: the
\* request is answered 403 and nothing is looked up.
C4_TamperRejected ==
  ( /\ pc["r1"] # "Idle"
    /\ probe.tampered
    /\ verifyAndExtractTelegramData(probe.original, BotToken).valid ) =>
    /\ req["r1"].initData = probe.initData
    /\ ~verifyAndExtractTelegramData(probe.initData, BotToken).valid
    /\ ~telegramData["r1"].valid
    /\ pc["r1"] = "Failed"
    /\ res["r1"].status = 403
    /\ calls["r1"] = NoCalls

\* A payload of three fields that verified as signed was refused after a
\* character of one of its keys was replaced.
C4_Witness ==
  /\ probe.tampered
  /\ Len(probe.signed) >= 3
  /\ verifyAndExtractTelegramData(probe.original, BotToken).valid
  /\ \E i \in DOMAIN probe.initData :
       /\ probe.initData[i][1] # probe.original[i][1]
       /\ probe.initData[i][2] = probe.original[i][2]
  /\ pc["r1"] = "Failed"
  /\ res["r1"].status = 403

\* C5: whatever the wire order of the pairs, the canonical string the
\* server builds is the same, it is the key=value lines in byte order of
\* the keys, and the payload the platform signed over that string is
\* accepted.
C5_ByteOrderCanonical ==
  (pc["r1"] # "Idle" /\ ~probe.tampered) =>
    LET params == ParamsDelete(req["r1"].initData, HashKey)
    IN /\ sortedParams(params) = sortedParams(probe.signed)
       /\ sortedParams(params) = byteOrderCanonical(params)
       /\ telegramData["r1"].valid
       /\ pc["r1"] = "Authorizing"


(***************************************************************************)
(* Normalization runs: one request slot, a registered active caller, and   *)
(* inference responses that vary the identifier (script, digit count,      *)
(* surrounding characters) and the name lines.                             *)
(***************************************************************************)
ArabicIndicDigits == <<"A0", "A1", "A2", "A3", "A4", "A5", "A6", "A7", "A8", "A9">>
PersianDigits == <<"P0", "P1", "P2", "P3", "P4", "P5", "P6", "P7", "P8", "P9">>

DigitValue(c) ==
  CASE c = "0" -> 0 [] c = "1" -> 1 [] c = "2" -> 2 [] c = "3" -> 3 [] c = "4" -> 4
    [] c = "5" -> 5 [] c = "6" -> 6 [] c = "7" -> 7 [] c = "8" -> 8 [] c = "9" -> 9

Scripts == {"ascii", "arabic-indic", "persian", "mixed"}

\* The ASCII digits written in a script.
InScript(digits, script) ==
  [i \in 1..Len(digits) |->
     CASE script = "ascii" -> digits[i]
       [] script = "arabic-indic" -> ArabicIndicDigits[DigitValue(digits[i]) + 1]
       [] script = "persian" -> PersianDigits[DigitValue(digits[i]) + 1]
       [] OTHER -> IF i % 2 = 1 THEN ArabicIndicDigits[DigitValue(digits[i]) + 1]
                   ELSE PersianDigits[DigitValue(digits[i]) + 1]]

Noises == {"none", "spaced", "labelled"}

\* The text with characters that are not digits around or inside it.
WithNoise(text, noise) ==
  CASE noise = "none" -> text
    [] noise = "spaced" ->
         IF Len(text) > 2
         THEN SubSeq(text, 1, 2) \o <<" ">> \o SubSeq(text, 3, Len(text))
         ELSE <<" ">> \o text
    [] OTHER -> <<"I", "D", ":", " ">> \o text \o <<"-">>

DigitCounts == {0, 1, NationalIdLength - 1, NationalIdLength, NationalIdLength + 1}

\* The first n digits of the identifier, followed by zeros.
FirstDigits(id, n) == [i \in 1..n |-> IF i <= Len(id) THEN id[i] ELSE "0"]

RawIdentifiers ==
  { WithNoise(InScript(FirstDigits(id, n), script), noise) :
      id \in {IdX, IdY}, n \in DigitCounts, script \in Scripts, noise \in Noises }
  \cup {Undefined}

Saeed == <<"S", "a", "e", "e", "d">>
Padded(line) == <<" ">> \o line \o <<" ", "\t">>

FirstLines == {Ali, Padded(Ali), <<>>, <<" ">>, Undefined}
SecondLines == {HassanMahmoudSaeed, Padded(Adel), <<>>, <<"\t", " ">>, Undefined}
AdditionalLines ==
  { <<>>, <<Saeed>>, <<(<<" ">>), Padded(Saeed)>>, <<Mona, (<<>>), Adel>> }

NormOutcomes ==
  { Resolves("object", Data(Ali, HassanMahmoudSaeed, <<>>, raw)) : raw \in RawIdentifiers }
  \cup { Resolves("object", Data(first, second, additional, IdX)) :
           first \in FirstLines, second \in SecondLines, additional \in AdditionalLines }
  \cup { Resolves("empty", NoData), Resolves("invalid", NoData),
         Resolves("null", NoData), TimerFires,
         Rejects("sdk:timeout"), Rejects("sdk:API key"), Rejects("sdk:") }

NormRequest == [initData |-> Signed(UserAli, BotToken, 2), file |-> "image/jpeg"]

\* Responses of an inference call that arrive after the timer has fired.
LateResponses ==
  { Resolves("object", Data(Ali, HassanMahmoudSaeed, <<>>, IdX)),
    Resolves("object", Data(Mona, Adel, <<>>, InScript(IdY, "persian"))) }

NormNext ==
  \/ Receive("r1", NormRequest.initData, NormRequest.file)
  \/ Authorize("r1")
  \/ \E t \in BOOLEAN : Preprocess("r1", t)
  \/ \E o \in NormOutcomes : Settle("r1", o)
  \/ \E o \in LateResponses : LateResolve("r1", o)
  \/ CheckDuplicate("r1")
  \/ ResolveSubmitter("r1")
  \/ Commit("r1")
  \/ StorageFail("r1")

SpecNorm == Init /\ [][NormNext]_vars


(***************************************************************************)
(* Properties of the normalization (SpecNorm).                             *)
(***************************************************************************)
RegionalDigits == Range(ArabicIndicDigits) \cup Range(PersianDigits)
DigitGlyphs == AsciiDigits \cup RegionalDigits

\* The ASCII digit with the value of a digit glyph.
AsciiOf(c) ==
  IF c \in AsciiDigits THEN c
  ELSE CHOOSE d \in AsciiDigits :
         c \in {ArabicIndicDigits[DigitValue(d) + 1], PersianDigits[DigitValue(d) + 1]}

\* The digit glyphs of a text, in order, each as its ASCII digit.
AsciiSpelling(raw) ==
  LET glyphs == SelectSeq(raw, LAMBDA c : c \in DigitGlyphs)
  IN [i \in 1..Len(glyphs) |-> AsciiOf(glyphs[i])]

\* The inference call of the request answered with a JSON object.
Answered(r) == inference[r].kind = "resolves" /\ inference[r].rawJson = "object"

NamePresent(line) == line # Undefined /\ Trim(line) # <<>>

BothNameLinesPresent(r) ==
  NamePresent(inference[r].data.firstLine) /\ NamePresent(inference[r].data.secondLine)

NameLines(r) ==
  <<inference[r].data.firstLine, inference[r].data.secondLine>>
    \o inference[r].data.additionalLines

\* The lines that are non-empty after trimming, trimmed, joined by one space.
ExpectedFullName(r) ==
  LET kept == SelectSeq(NameLines(r), NamePresent)
  IN Join([i \in 1..Len(kept) |-> Trim(kept[i])], <<" ">>)

IdentifierAccepted(r) ==
  Len(AsciiSpelling(inference[r].data.nationalId)) = NationalIdLength

\* C8: whatever raw identifier the inference call returns, the normalized
\* identifier holds ASCII digits only; when the number n of its digits is
\* neither 14 nor 0 the request fails, nothing is looked up or inserted and
\* the card rows are those the request found, and (the name lines being
\* present) the failure is NATIONAL_ID_INCOMPLETE carrying exactly n, on
\* the result of processIdCardImage and on the 500 response.
C8_IdentifierIncomplete ==
  \A r \in Requests :
    Answered(r) =>
      LET raw == inference[r].data.nationalId
          n == Len(AsciiSpelling(raw))
      IN /\ Range(cleanedNationalId(raw)) \subseteq AsciiDigits
         /\ extractedData[r].ok =>
              /\ Range(extractedData[r].nationalId) \subseteq AsciiDigits
              /\ Len(extractedData[r].nationalId) = NationalIdLength
         /\ n \notin {0, NationalIdLength} =>
              /\ pc[r] = "Failed"
              /\ ~extractedData[r].ok
              /\ calls[r].lookup = 0
              /\ calls[r].insert = 0
              /\ cardsSheet = atStart[r]
              /\ BothNameLinesPresent(r) =>
                   /\ extractedData[r].error = "NATIONAL_ID_INCOMPLETE"
                   /\ extractedData[r].len = n
                   /\ res[r].status = 500
                   /\ res[r].error = "NATIONAL_ID_INCOMPLETE"
                   /\ res[r].len = n

\* A request failed on an identifier of 13 digits that were not all ASCII
\* and had other characters among them.
C8_Witness ==
  \E r \in Requests :
    /\ Answered(r)
    /\ BothNameLinesPresent(r)
    /\ Len(AsciiSpelling(inference[r].data.nationalId)) = NationalIdLength - 1
    /\ Len(inference[r].data.nationalId) > NationalIdLength - 1
    /\ \E i \in DOMAIN inference[r].data.nationalId :
         inference[r].data.nationalId[i] \in RegionalDigits
    /\ pc[r] = "Failed"
    /\ res[r].error = "NATIONAL_ID_INCOMPLETE"
    /\ res[r].len = NationalIdLength - 1

\* C9: the normalized identifier is the raw one with every Arabic-Indic
\* and Persian digit replaced by the ASCII digit of its value and every
\* other non-digit removed; a raw identifier of 14 regional digits is
\* accepted as its ASCII spelling, and it is under that spelling that the
\* duplicate is looked up and the card inserted.
C9_RegionalDigits ==
  \A r \in Requests :
    Answered(r) =>
      LET raw == inference[r].data.nationalId
          ascii == AsciiSpelling(raw)
      IN /\ cleanedNationalId(raw) = ascii
         /\ extractedData[r].ok => extractedData[r].nationalId = ascii
         /\ ( /\ Len(raw) = NationalIdLength
              /\ Range(raw) \subseteq RegionalDigits
              /\ BothNameLinesPresent(r) ) =>
              /\ extractedData[r].ok
              /\ extractedData[r].nationalId = ascii
              /\ calls[r].lookup = 1
              /\ pc[r] \in {"ResolvingSubmitter", "Duplicated"} =>
                   /\ existing[r] # <<>>
                   /\ existing[r][1].nationalId = ascii
                   /\ \E i \in DOMAIN atStart[r] : atStart[r][i].nationalId = ascii
                   /\ cardsSheet = atStart[r]
              /\ pc[r] \in {"Committing", "Succeeded"} =>
                   \A i \in DOMAIN atStart[r] : atStart[r][i].nationalId # ascii
              /\ pc[r] = "Succeeded" =>
                   /\ cardsSheet[Len(cardsSheet)].nationalId = ascii
                   /\ res[r].nationalId = ascii

\* An identifier of 14 regional digits was found to duplicate the card
\* committed under its ASCII spelling.
C9_Witness ==
  \E r \in Requests :
    /\ Answered(r)
    /\ Len(inference[r].data.nationalId) = NationalIdLength
    /\ Range(inference[r].data.nationalId) \subseteq RegionalDigits
    /\ pc[r] = "Duplicated"
    /\ res[r].existingCard[1].nationalId = IdX
    /\ AsciiSpelling(inference[r].data.nationalId) = IdX

EveryNameLineEmpty(r) ==
  /\ inference[r].data.firstLine # Undefined
  /\ inference[r].data.secondLine # Undefined
  /\ \A i \in DOMAIN NameLines(r) : Trim(NameLines(r)[i]) = <<>>

\* C11: when the inference call answers with name lines that are all empty
\* after trimming, empty strings included, and with an identifier, the
\* request fails with NAME_NOT_FOUND, on the result of processIdCardImage
\* and on the response.
C11_NameNotFound ==
  \A r \in Requests :
    ( /\ Answered(r)
      /\ ~Falsy(inference[r].data.nationalId)
      /\ EveryNameLineEmpty(r) ) =>
      /\ pc[r] = "Failed"
      /\ ~extractedData[r].ok
      /\ extractedData[r].error = "NAME_NOT_FOUND"
      /\ res[r].error = "NAME_NOT_FOUND"

\* The timer of withTimeout fired before the inference call of the request
\* settled.
TimedOut(r) == inference[r].kind = "timeout"

\* C12: a request whose timer fired before its inference call settled has
\* failed with the timeout error and the 500 response, has looked nothing
\* up and inserted nothing, and the card rows are those it found on
\* arrival; this stays so when the inference call answers afterwards.
C12_TimeoutFailsSubmission ==
  \A r \in Requests :
    TimedOut(r) =>
      /\ pc[r] = "Failed"
      /\ ~extractedData[r].ok
      /\ extractedData[r].error = "TIMEOUT_LONG"
      /\ res[r].status = 500
      /\ res[r].success = "false"
      /\ res[r].error = "TIMEOUT_LONG"
      /\ calls[r].inference = 1
      /\ calls[r].lookup = 0
      /\ calls[r].insert = 0
      /\ cardsSheet = atStart[r]

\* The inference call answered with a valid card after the timer had
\* fired; the request stays failed and no row holds the identifier.
C12_Witness ==
  \E r \in Requests :
    /\ TimedOut(r)
    /\ inference[r].rawJson = "object"
    /\ ProcessOutcome([inference[r] EXCEPT !.kind = "resolves"]).ok
    /\ inference[r].data.nationalId = IdX
    /\ pc[r] = "Failed"
    /\ res[r].status = 500
    /\ \A i \in DOMAIN cardsSheet : cardsSheet[i].nationalId # IdX

\* C19: every card row holds a nationalId of exactly 14 characters, each
\* an ASCII digit, and a name that is not empty, whatever identifiers and
\* name lines the inference call returned for the submissions so far; so
\* does every result of processIdCardImage that the handler goes on with.
C19_RecordWellFormed ==
  /\ \A i \in DOMAIN cardsSheet :
       /\ Len(cardsSheet[i].nationalId) = NationalIdLength
       /\ Range(cardsSheet[i].nationalId) \subseteq AsciiDigits
       /\ cardsSheet[i].name # <<>>
  /\ \A r \in Requests :
       pc[r] \in {"CheckingDuplicate", "Committing", "Succeeded"} =>
         /\ Len(extractedData[r].nationalId) = NationalIdLength
         /\ Range(extractedData[r].nationalId) \subseteq AsciiDigits
         /\ extractedData[r].name # <<>>

\* A card was committed from an identifier returned in regional digits
\* with other characters around it, and one from a name of padded lines.
C19_Witness ==
  \E r \in Requests :
    /\ Answered(r)
    /\ pc[r] = "Succeeded"
    /\ Len(cardsSheet) = 2
    /\ Len(inference[r].data.nationalId) > NationalIdLength
    /\ \E i \in DOMAIN inference[r].data.nationalId :
         inference[r].data.nationalId[i] \in RegionalDigits
    /\ cardsSheet[2].nationalId = IdY
    /\ cardsSheet[1].nationalId = IdX
    /\ cardsSheet[1].name = Ali \o <<" ">> \o Adel


(***************************************************************************)
(* Agent runs: one request slot, launch payloads that name the caller in   *)
(* different ways, and a registry that changes while a request is in       *)
(* flight.                                                                 *)
(***************************************************************************)
UserIdOnly == <<"{", "id:101", "}">>
UserBothNames == <<"{", "id:101", "username:ali", "first_name:Al", "}">>
UserFirstNameOnly == <<"{", "id:101", "first_name:Al", "}">>
UserWithoutId == <<"{", "username:ali", "}">>

AgentUsers ==
  {UserAli, UserOmar, UserIdOnly, UserBothNames, UserFirstNameOnly, UserWithoutId}

\* A user field cut short, which JSON.parse rejects.
UserCutShort == <<"{", "id:101">>

\* Launch payloads that do not pass the verification: empty, without hash,
\* signed under another token, without user field, with a user field that
\* is not JSON.
UnverifiablePayloads ==
  { <<>>,
    PairsOf(UserAli),
    Signed(UserAli, OtherToken, 2),
    WithHash(<<AuthDate>>, TelegramSign(<<AuthDate>>, BotToken), 1),
    Signed(UserCutShort, BotToken, 2) }

Files == {"image/jpeg", "none", "text/plain"}

AgentRequests ==
  { [initData |-> Signed(u, BotToken, 2), file |-> "image/jpeg"] : u \in AgentUsers }
  \cup { [initData |-> d, file |-> f] : d \in UnverifiablePayloads, f \in Files }
  \cup { [initData |-> Signed(UserAli, BotToken, 2), file |-> f] : f \in Files }

Centers == {"Tima", "Tahta", "Juhayna"}

AgentNext ==
  \/ \E q \in AgentRequests : Receive("r1", q.initData, q.file)
  \/ Authorize("r1")
  \/ \E t \in BOOLEAN : Preprocess("r1", t)
  \/ \E o \in PipelineOutcomes : Settle("r1", o)
  \/ CheckDuplicate("r1")
  \/ ResolveSubmitter("r1")
  \/ Commit("r1")
  \/ StorageFail("r1")
  \/ \E n \in NewRepresentatives : AdminAdd(n)
  \/ \E u \in {"101", "102"} : AdminDelete(u)
  \/ \E i \in 1..2, st \in {Active, Inactive} : SheetEditStatus(i, st)
  \/ \E i \in 1..2, c \in Centers : SheetEditCenter(i, c)

SpecAgent == Init /\ [][AgentNext]_vars


(***************************************************************************)
(* Properties of the agent runs (SpecAgent).                               *)
(***************************************************************************)
\* C17: the step that inserts a card stores the center that the registry
\* holds for the submitting agent at that step, and a step that changes
\* the registry changes no card row.
C17_CenterAtInsertion ==
  [][/\ \A r \in Requests :
          (pc[r] = "Committing" /\ pc'[r] = "Succeeded") =>
            \A found \in {getRepresentativeByUserId(usersSheet, telegramData[r].userId)} :
              /\ found # <<>>
              /\ cardsSheet'[Len(cardsSheet')].center = found[1].center
     /\ usersSheet' # usersSheet => cardsSheet' = cardsSheet]_vars

\* The id and the display name the launch payload of the request gives:
\* user.id, and user.username, else user.first_name, else the placeholder.
PayloadUser(r) == ParamsGet(req[r].initData, UserKey)

PayloadDisplayName(r) ==
  IF \E i \in DOMAIN PayloadUser(r) : JsonMemberName(PayloadUser(r)[i]) = "username"
  THEN JsonMember(PayloadUser(r), "username")
  ELSE IF \E i \in DOMAIN PayloadUser(r) : JsonMemberName(PayloadUser(r)[i]) = "first_name"
  THEN JsonMember(PayloadUser(r), "first_name")
  ELSE Placeholder

\* C20: the row a submission has committed carries as insertedByUserId the
\* id of the user of its launch payload, which verifies, and as
\* insertedByUsername the username of that user if it has one, else its
\* first_name, else the placeholder, whatever name the registry holds for
\* the agent.
C20_SubmitterFromPayload ==
  \A r \in Requests :
    pc[r] = "Succeeded" =>
      /\ HashRecomputedAndEqual(req[r].initData)
      /\ cardsSheet[Len(cardsSheet)].insertedByUserId = JsonMember(PayloadUser(r), "id")
      /\ cardsSheet[Len(cardsSheet)].insertedByUserId # ""
      /\ cardsSheet[Len(cardsSheet)].insertedByUsername = PayloadDisplayName(r)

\* A card was committed under the placeholder for a payload that has an id
\* only, by an agent the registry names ali, after a card committed under
\* the first_name of a payload without username.
C20_Witness ==
  \E r \in Requests :
    /\ pc[r] = "Succeeded"
    /\ PayloadUser(r) = UserIdOnly
    /\ rep[r][1].username = "ali"
    /\ Len(cardsSheet) = 2
    /\ cardsSheet[2].insertedByUserId = "101"
    /\ cardsSheet[2].insertedByUsername = Placeholder
    /\ cardsSheet[1].insertedByUsername = "Al"

\* The ways a launch payload can fail the verification, read off the
\* payload of the request.
EmptyPayload(r) == req[r].initData = <<>>

HashMissing(r) ==
  req[r].initData # <<>> /\ Falsy(ParamsGet(req[r].initData, HashKey))

HashDiffers(r) ==
  /\ req[r].initData # <<>>
  /\ ~Falsy(ParamsGet(req[r].initData, HashKey))
  /\ ~HashRecomputedAndEqual(req[r].initData)

UserMissing(r) ==
  HashRecomputedAndEqual(req[r].initData) /\ Falsy(PayloadUser(r))

UserNotJson(r) ==
  /\ HashRecomputedAndEqual(req[r].initData)
  /\ ~Falsy(PayloadUser(r))
  /\ ~(Len(PayloadUser(r)) >= 2 /\ Head(PayloadUser(r)) = "{"
       /\ PayloadUser(r)[Len(PayloadUser(r))] = "}")

UserHasNoId(r) ==
  /\ HashRecomputedAndEqual(req[r].initData)
  /\ ~Falsy(PayloadUser(r))
  /\ ~UserNotJson(r)
  /\ \A i \in DOMAIN PayloadUser(r) : JsonMemberName(PayloadUser(r)[i]) # "id"

\* The request was handed to the handler: the upload filter let it pass.
Handled(r) == pc[r] # "Idle" /\ req[r].file \in {"image/jpeg", "none"}

\* The request was answered 403 by the verification, before any call.
AuthenticationFailed(r) ==
  /\ pc[r] = "Failed"
  /\ res[r].status = 403
  /\ res[r].error = "INVALID_SIGNATURE"
  /\ calls[r] = NoCalls

\* C21 as stated: for an empty payload, a missing hash, a hash that
\* differs, a missing user field, a user field that is not JSON and a user
\* object without id, verifyAndExtractTelegramData returns the invalid
\* result and the request is answered 403.
C21_InvalidResultInEveryCase ==
  \A r \in Requests :
    ( /\ Handled(r)
      /\ \/ EmptyPayload(r) \/ HashMissing(r) \/ HashDiffers(r)
         \/ UserMissing(r) \/ UserNotJson(r) \/ UserHasNoId(r) ) =>
      /\ telegramData[r] = Invalid
      /\ AuthenticationFailed(r)

\* C21 amended: for an empty payload, a missing hash, a hash that differs,
\* a missing user field and a user field that is not JSON,
\* verifyAndExtractTelegramData returns the invalid result; for a user
\* object without id it returns a valid result whose userId is undefined,
\* with the display name of the payload; in all six cases the request is
\* answered 403 (not 500: nothing is thrown) and no call is issued.
C21_NoIdIsValidWithoutUserId ==
  \A r \in Requests :
    Handled(r) =>
      /\ ( \/ EmptyPayload(r) \/ HashMissing(r) \/ HashDiffers(r)
           \/ UserMissing(r) \/ UserNotJson(r) ) =>
           /\ telegramData[r] = Invalid
           /\ AuthenticationFailed(r)
      /\ UserHasNoId(r) =>
           /\ telegramData[r].valid
           /\ telegramData[r].userId = ""
           /\ telegramData[r].username = PayloadDisplayName(r)
           /\ AuthenticationFailed(r)

\* A request whose payload verifies and whose user object has no id was
\* answered 403, after one whose user field is not JSON.
C21_Witness ==
  \E r \in Requests :
    /\ UserHasNoId(r)
    /\ req[r].file = "image/jpeg"
    /\ telegramData[r].valid
    /\ AuthenticationFailed(r)
    /\ submissions = 2

\* The messages that stand for a response that could not be read.
ExtractionMalformed == {"READ_CARD_FAILED", "PARSE_FAILED"}

\* The request failed with the kind and committed nothing.
FailedWith(r, kinds) ==
  /\ pc[r] = "Failed"
  /\ ~extractedData[r].ok
  /\ extractedData[r].error \in kinds
  /\ res[r].status = 500
  /\ res[r].error = extractedData[r].error
  /\ calls[r].lookup = 0
  /\ calls[r].insert = 0
  /\ cardsSheet = atStart[r]

\* The launch payload verifies and names a user id and a display name.
Authenticated(r) ==
  \E data \in {verifyAndExtractTelegramData(req[r].initData, BotToken)} :
    data.valid /\ data.userId # "" /\ data.username # ""

\* C28: the checks run in the order verification, file presence, registry,
\* extraction, lookup, insert: an answered request whose payload does not
\* verify has status 403 whatever was uploaded, an answered request of an
\* authenticated caller without a file has status 400 and no registry
\* read, the inference is called only for a caller the registry holds as
\* active, the lookup only after the inference and the insert only after
\* the lookup.
C28_FixedOrder ==
  \A r \in Requests :
    /\ ( /\ pc[r] \in Terminal
         /\ ~verifyAndExtractTelegramData(req[r].initData, BotToken).valid ) =>
           res[r].status = 403 /\ calls[r] = NoCalls
    /\ (pc[r] \in Terminal /\ Authenticated(r) /\ req[r].file = "none") =>
           res[r].status = 400 /\ calls[r] = NoCalls
    /\ calls[r].inference > 0 =>
           calls[r].registry > 0 /\ rep[r] # <<>> /\ rep[r][1].status = Active
    /\ calls[r].lookup > 0 => calls[r].inference > 0
    /\ calls[r].insert > 0 => calls[r].lookup > 0


\* C22: an inference response that is empty or not JSON fails the request
\* with a malformed-response message, and a response that is JSON and
\* lacks firstLine, secondLine or nationalId fails it with
\* EXTRACTION_FAILED; nothing is committed.
C22_MalformedOrFailed ==
  \A r \in Requests :
    inference[r].kind = "resolves" =>
      /\ inference[r].rawJson \in {"empty", "invalid"} =>
           FailedWith(r, ExtractionMalformed)
      /\ ( \/ inference[r].rawJson = "null"
           \/ /\ inference[r].rawJson = "object"
              /\ \/ inference[r].data.firstLine = Undefined
                 \/ inference[r].data.secondLine = Undefined
                 \/ inference[r].data.nationalId = Undefined ) =>
           FailedWith(r, {"EXTRACTION_FAILED"})


(***************************************************************************)
(* Store runs: the server starts on a NATIONAL_ID_DATA sheet that holds    *)
(* cards of earlier submissions, among them two with the same nationalId   *)
(* (committed by overlapping submissions) and cards of an agent that the   *)
(* registry does not hold; one request slot, and a registry that changes.  *)
(***************************************************************************)
MonaAdel == Mona \o <<" ">> \o Adel

\* Cards as passed to addCard: by agent 101, whose name in the payload was
\* Al, and by agent 103.
CardXBy101 ==
  [name |-> Ali \o <<" ">> \o HassanMahmoudSaeed, nationalId |-> IdX,
   insertedByUserId |-> "101", insertedByUsername |-> "Al", center |-> "Tima"]
CardXBy103 ==
  [name |-> MonaAdel, nationalId |-> IdX,
   insertedByUserId |-> "103", insertedByUsername |-> "zaki", center |-> "Tahta"]
CardYBy103 ==
  [name |-> MonaAdel, nationalId |-> IdY,
   insertedByUserId |-> "103", insertedByUsername |-> "zaki", center |-> "Tahta"]

\* The sheet after addCard was called with the cards in turn, at times 1,
\* 2, ...
StoreOf(cards) == [i \in 1..Len(cards) |-> addCard(<<>>, cards[i], i)[1]]

StoredSheets ==
  { StoreOf(<<CardXBy101, CardXBy103, CardYBy103>>),
    StoreOf(<<CardXBy103, CardXBy101, CardYBy103>>),
    StoreOf(<<CardYBy103, CardXBy103, CardXBy101>>),
    StoreOf(<<CardXBy103, CardYBy103>>),
    StoreOf(<<CardXBy101>>) }

StoreInit ==
  /\ usersSheet = InitialUsers
  /\ cardsSheet \in StoredSheets
  /\ clock = Len(cardsSheet) + 1
  /\ pc = [r \in Requests |-> "Idle"]
  /\ req = [r \in Requests |-> NoRequest]
  /\ telegramData = [r \in Requests |-> Invalid]
  /\ rep = [r \in Requests |-> <<>>]
  /\ image = [r \in Requests |-> "none"]
  /\ inference = [r \in Requests |-> NoOutcome]
  /\ extractedData = [r \in Requests |-> NoExtraction]
  /\ existing = [r \in Requests |-> <<>>]
  /\ res = [r \in Requests |-> NoResponse]
  /\ calls = [r \in Requests |-> NoCalls]
  /\ atStart = [r \in Requests |-> <<>>]
  /\ overlapped = [r \in Requests |-> FALSE]
  /\ submissions = 0
  /\ adminOps = 0
  /\ probe = NoProbe

StoreNext ==
  \/ Receive("r1", NormRequest.initData, NormRequest.file)
  \/ Authorize("r1")
  \/ \E t \in BOOLEAN : Preprocess("r1", t)
  \/ \E o \in PipelineOutcomes : Settle("r1", o)
  \/ CheckDuplicate("r1")
  \/ ResolveSubmitter("r1")
  \/ Commit("r1")
  \/ StorageFail("r1")
  \/ \E n \in NewRepresentatives : AdminAdd(n)
  \/ \E u \in {"101", "102"} : AdminDelete(u)

SpecStore == StoreInit /\ [][StoreNext]_vars


(***************************************************************************)
(* Properties of the store runs (SpecStore).                               *)
(***************************************************************************)
\* The rows of the card sheet that hold the identifier.
RowsWith(nationalId) ==
  {i \in DOMAIN cardsSheet : cardsSheet[i].nationalId = nationalId}

\* C23: the step that sends the duplicate response reports a row of the
\* card sheet that holds the identifier, with its name, nationalId,
\* insertedByUserId, center and insertionDate as stored, and as
\* insertedByUsername the username the registry holds at that step for the
\* agent that inserted it, or the stored one when the registry does not
\* hold that agent; the step changes no row.
C23_DuplicateReportsRecord ==
  [][\A r \in Requests :
       (pc[r] = "ResolvingSubmitter" /\ pc'[r] = "Duplicated") =>
         /\ cardsSheet' = cardsSheet
         /\ res'[r].status = 200
         /\ res'[r].isDuplicate = "true"
         /\ \E i \in RowsWith(extractedData[r].nationalId) :
            \E reported \in {res'[r].existingCard[1]} :
              /\ reported.name = cardsSheet[i].name
              /\ reported.nationalId = cardsSheet[i].nationalId
              /\ reported.insertedByUserId = cardsSheet[i].insertedByUserId
              /\ reported.center = cardsSheet[i].center
              /\ reported.insertionDate = cardsSheet[i].insertionDate
              /\ \A k \in DOMAIN usersSheet :
                   ( /\ usersSheet[k].userId = cardsSheet[i].insertedByUserId
                     /\ \A j \in 1..(k - 1) :
                          usersSheet[j].userId # cardsSheet[i].insertedByUserId ) =>
                     reported.insertedByUsername = usersSheet[k].username
              /\ (\A k \in DOMAIN usersSheet :
                    usersSheet[k].userId # cardsSheet[i].insertedByUserId) =>
                   reported.insertedByUsername = cardsSheet[i].insertedByUsername
     ]_vars

\* A duplicate was reported under the name the registry now holds for its
\* agent, which is not the stored one, and the row stands as stored.
C23_Witness ==
  \E r \in Requests :
    /\ pc[r] = "Duplicated"
    /\ res[r].existingCard[1].insertedByUserId = "103"
    /\ res[r].existingCard[1].insertedByUsername = "mona"
    /\ res[r].existingCard[1].nationalId = IdY
    /\ \E i \in DOMAIN cardsSheet :
         /\ cardsSheet[i].nationalId = IdY
         /\ cardsSheet[i].insertedByUsername = "zaki"
    /\ cardsSheet \in StoredSheets

\* C29: a request answered as a duplicate reports the first row in sheet
\* order whose nationalId is the identifier it yielded, which no other row
\* with that identifier precedes in insertion time; a request that went on
\* to its insert found no row whose nationalId equals the identifier.
C29_FirstMatchReported ==
  \A r \in Requests :
    /\ pc[r] = "Duplicated" =>
         /\ RowsWith(extractedData[r].nationalId) # {}
         /\ \A i \in RowsWith(extractedData[r].nationalId) :
              /\ res[r].existingCard[1].insertionDate <= cardsSheet[i].insertionDate
              /\ (\A j \in RowsWith(extractedData[r].nationalId) : i <= j) =>
                   /\ res[r].existingCard[1].insertionDate = cardsSheet[i].insertionDate
                   /\ res[r].existingCard[1].insertedByUserId = cardsSheet[i].insertedByUserId
                   /\ res[r].existingCard[1].name = cardsSheet[i].name
                   /\ res[r].existingCard[1].nationalId = extractedData[r].nationalId
    /\ pc[r] = "Committing" => RowsWith(extractedData[r].nationalId) = {}

\* The sheet holds two rows with the identifier, by different agents, and
\* the duplicate response reports the one inserted first, by agent 103.
C29_Witness ==
  \E r \in Requests :
    /\ pc[r] = "Duplicated"
    /\ extractedData[r].nationalId = IdX
    /\ Cardinality(RowsWith(IdX)) = 2
    /\ cardsSheet[1].nationalId = IdX
    /\ cardsSheet[1].insertedByUserId = "103"
    /\ res[r].existingCard[1].insertedByUserId = "103"
    /\ res[r].existingCard[1].insertionDate = 1


(***************************************************************************)
(* Comparison runs: the hash the server calculated for a payload is        *)
(* compared with a supplied hash that differs from it in one character,    *)
(* is equal to it, or is shorter.                                          *)
(***************************************************************************)
\* calculatedHash !== hash, by the work it does: strict equality of two
\* strings compares their lengths and then their characters from the first
\* on, up to the first two that differ.  The number of characters examined.
StrictEqualsExamined(a, b) ==
  IF Len(a) # Len(b) THEN 0
  ELSE LET differ == {i \in 1..Len(a) : a[i] # b[i]}
       IN IF differ = {} THEN Len(a)
          ELSE CHOOSE i \in differ : \A j \in differ : i <= j

CalculatedHash == Hmac(SecretKey(BotToken), sortedParams(PairsOf(UserAli)))

SuppliedHashes ==
  { [CalculatedHash EXCEPT ![k] = c] :
      k \in 1..Len(CalculatedHash), c \in {"x", "y", "z"} }
  \cup { SubSeq(CalculatedHash, 1, n) : n \in 1..Len(CalculatedHash) }

CompareInit ==
  /\ PipelineInit
  /\ probe \in { [stage |-> "compare", calculated |-> CalculatedHash, supplied |-> h,
                   done |-> FALSE, differs |-> FALSE, examined |-> 0] :
                   h \in SuppliedHashes }

\* if (calculatedHash !== hash)
CompareHash ==
  /\ ~probe.done
  /\ probe' = [probe EXCEPT
                 !.done = TRUE,
                 !.differs = probe.calculated # probe.supplied,
                 !.examined = StrictEqualsExamined(probe.calculated, probe.supplied)]
  /\ UNCHANGED <<usersSheet, cardsSheet, clock, pc, req, telegramData, rep, image,
                 inference, extractedData, existing, res, calls, atStart, overlapped,
                 submissions, adminOps>>

SpecCompare == CompareInit /\ [][CompareHash]_vars

\* C24: the comparison of the calculated hash with a supplied hash of the
\* same length examines every character, wherever the first difference
\* is, so that its duration does not tell that position.
C24_ConstantTime ==
  (probe.done /\ Len(probe.supplied) = Len(probe.calculated)) =>
    probe.examined = Len(probe.calculated)


(***************************************************************************)
(* Properties of the control flow and of the insert (Spec).                *)
(***************************************************************************)
\* The states that follow a state of the handler.
Successors(state) ==
  CASE state = "Authorizing" -> {"Preprocessing", "Failed"}
    [] state = "Preprocessing" -> {"Extracting"}
    [] state = "Extracting" -> {"CheckingDuplicate", "Failed"}
    [] state = "CheckingDuplicate" -> {"ResolvingSubmitter", "Committing", "Failed"}
    [] state = "ResolvingSubmitter" -> {"Duplicated", "Failed"}
    [] state = "Committing" -> {"Succeeded", "Failed"}
    [] OTHER -> {}

\* The place of a state in the order of the pipeline.
Stage(state) ==
  CASE state = "Idle" -> 0
    [] state = "Authorizing" -> 1
    [] state = "Preprocessing" -> 2
    [] state = "Extracting" -> 3
    [] state = "CheckingDuplicate" -> 4
    [] state \in {"ResolvingSubmitter", "Committing"} -> 5
    [] OTHER -> 6

\* C25: a request in flight moves only to a state that follows its own
\* in the order of the pipeline, or directly to Failed; a request in a
\* terminal state leaves it only when a new request arrives; Committing is
\* entered only from the duplicate lookup, when no row holds the
\* identifier.  (The verification and the validation run inside the steps
\* that receive the request and that settle the inference call.)
C25_ForwardOnly ==
  [][\A r \in Requests :
       /\ (pc[r] \in InFlight /\ pc'[r] # pc[r]) =>
            /\ pc'[r] \in Successors(pc[r])
            /\ Stage(pc'[r]) > Stage(pc[r])
            /\ submissions' = submissions
       /\ (pc[r] \in Terminal /\ submissions' = submissions) =>
            (pc'[r] = pc[r] /\ res'[r] = res[r])
       /\ (pc[r] \in Terminal \cup {"Idle"} /\ pc'[r] # pc[r]) =>
            /\ submissions' = submissions + 1
            /\ pc'[r] \in {"Authorizing", "Failed"}
       /\ (pc'[r] = "Committing" /\ pc[r] # "Committing") =>
            /\ pc[r] = "CheckingDuplicate"
            /\ RowsWith(extractedData[r].nationalId) = {}
            /\ existing'[r] = <<>>]_vars

\* One request went through every state to its commit and the other one
\* through the duplicate lookup to the duplicate response.
C25_Witness ==
  \E r, q \in Requests :
    /\ pc[r] = "Succeeded"
    /\ calls[r] = [registry |-> 1, inference |-> 1, lookup |-> 1, insert |-> 1]
    /\ pc[q] = "Duplicated"
    /\ calls[q] = [registry |-> 2, inference |-> 1, lookup |-> 1, insert |-> 0]

\* C26: the step in which addCard returns adds exactly one row at the end
\* of the sheet, with the name and nationalId extracted, the id and name
\* of the caller, the center of the caller's registry row and the time of
\* the server, whether or not a row already holds the nationalId, and
\* leaves every row the sheet had as it was.
C26_UnconditionalAppend ==
  [][\A r \in Requests :
       (pc[r] = "Committing" /\ pc'[r] = "Succeeded") =>
         /\ Len(cardsSheet') = Len(cardsSheet) + 1
         /\ SubSeq(cardsSheet', 1, Len(cardsSheet)) = cardsSheet
         /\ cardsSheet'[Len(cardsSheet')] =
              [name |-> extractedData[r].name,
               nationalId |-> extractedData[r].nationalId,
               insertedByUserId |-> telegramData[r].userId,
               insertedByUsername |-> telegramData[r].username,
               center |-> rep[r][1].center,
               insertionDate |-> clock]
         /\ clock' > clock]_vars

\* addCard has added a row with a nationalId that a row already held.
C26_Witness ==
  /\ Len(cardsSheet) = 2
  /\ cardsSheet[1].nationalId = cardsSheet[2].nationalId
  /\ cardsSheet[1].insertionDate < cardsSheet[2].insertionDate
  /\ \A r \in Requests : pc[r] = "Succeeded"


(***************************************************************************)
(* Registry runs: the handlers of POST /api/representatives and of DELETE  *)
(* /api/representatives/:userId, one action per stretch between two        *)
(* awaits, for two administrator requests that may overlap.  The state of  *)
(* the two handlers is held in probe.                                      *)
(***************************************************************************)
Admins == {"a1", "a2"}

NoAdminRequest ==
  [pc |-> "Idle", kind |-> "none", body |-> <<>>, userId |-> "", rowIndex |-> 0,
   before |-> <<>>, atDelete |-> <<>>, after |-> <<>>, status |-> 0]

\* validation.data of the requests: two new representatives and one the
\* registry holds.
AdminBodies ==
  NewRepresentatives
  \cup { [userId |-> "101", username |-> "ali", center |-> "Tima", status |-> Active] }

AdminInit == PipelineInit /\ probe = [a \in Admins |-> NoAdminRequest]

unchangedByHandlers ==
  UNCHANGED <<cardsSheet, pc, req, telegramData, rep, image, inference,
              extractedData, existing, res, calls, atStart, overlapped, submissions>>

\* POST /api/representatives arrives with a body that passes the schema:
\* getRepresentativeByUserId is called.
AdminPost(a, body) ==
  /\ probe[a].pc \in {"Idle", "Done"}
  /\ adminOps < MaxAdminRequests
  /\ adminOps' = adminOps + 1
  /\ probe' = [probe EXCEPT ![a] =
                 [NoAdminRequest EXCEPT !.pc = "Checking", !.kind = "post",
                                        !.body = <<body>>, !.userId = body.userId]]
  /\ UNCHANGED <<usersSheet, clock>>
  /\ unchangedByHandlers

\* getRepresentativeByUserId returns: 400 when the userId exists, else
\* addRepresentative is called.
AdminCheckReturns(a) ==
  /\ probe[a].pc = "Checking"
  /\ IF getRepresentativeByUserId(ReadUsersSheet, probe[a].userId) # <<>>
     THEN probe' = [probe EXCEPT ![a].pc = "Done", ![a].status = 400]
     ELSE probe' = [probe EXCEPT ![a].pc = "Appending"]
  /\ UNCHANGED <<usersSheet, clock, adminOps>>
  /\ unchangedByHandlers

\* addRepresentative returns: the row is appended; the new row is read back.
AdminAppendReturns(a) ==
  /\ probe[a].pc = "Appending"
  /\ usersSheet' = addRepresentative(usersSheet, probe[a].body[1], clock)
  /\ clock' = clock + 1
  /\ probe' = [probe EXCEPT ![a].pc = "Rereading"]
  /\ UNCHANGED adminOps
  /\ unchangedByHandlers

\* The second getRepresentativeByUserId returns: res.json(newRep).
AdminRereadReturns(a) ==
  /\ probe[a].pc = "Rereading"
  /\ probe' = [probe EXCEPT ![a].pc = "Done", ![a].status = 200]
  /\ UNCHANGED <<usersSheet, clock, adminOps>>
  /\ unchangedByHandlers

\* DELETE /api/representatives/:userId arrives: deleteRepresentative reads
\* column A of the sheet.
AdminDeleteArrives(a, userId) ==
  /\ probe[a].pc \in {"Idle", "Done"}
  /\ adminOps < MaxAdminRequests
  /\ adminOps' = adminOps + 1
  /\ probe' = [probe EXCEPT ![a] =
                 [NoAdminRequest EXCEPT !.pc = "ReadingColumn", !.kind = "delete",
                                        !.userId = userId]]
  /\ UNCHANGED <<usersSheet, clock>>
  /\ unchangedByHandlers

\* values.get of USERS!A:A returns: rowIndex is the position of the first
\* match, the header at position 0 (0 here when there is none); without a
\* match the handler answers at once, else batchUpdate is called.
AdminDeleteReads(a) ==
  /\ probe[a].pc = "ReadingColumn"
  /\ \E rowIndex \in {FindIndex([k \in DOMAIN usersSheet |->
                                     usersSheet[k].userId = probe[a].userId])} :
       probe' = [probe EXCEPT
                  ![a].rowIndex = rowIndex,
                  ![a].before = usersSheet,
                  ![a].atDelete = IF rowIndex = 0 THEN usersSheet ELSE <<>>,
                  ![a].after = IF rowIndex = 0 THEN usersSheet ELSE <<>>,
                  ![a].pc = IF rowIndex = 0 THEN "Done" ELSE "Deleting",
                  ![a].status = IF rowIndex = 0 THEN 200 ELSE 0]
  /\ UNCHANGED <<usersSheet, clock, adminOps>>
  /\ unchangedByHandlers

\* batchUpdate returns: the rows from startIndex rowIndex + 1 to endIndex
\* rowIndex + 2 of the sheet (0-based, header included, end excluded) are
\* deleted, which is data row rowIndex + 1.
AdminDeleteApplies(a) ==
  /\ probe[a].pc = "Deleting"
  /\ usersSheet' = RemoveAt(usersSheet, probe[a].rowIndex + 1)
  /\ probe' = [probe EXCEPT ![a].atDelete = usersSheet,
                            ![a].after = usersSheet',
                            ![a].pc = "Done",
                            ![a].status = 200]
  /\ UNCHANGED <<clock, adminOps>>
  /\ unchangedByHandlers

AdminNext ==
  \/ \E a \in Admins, body \in AdminBodies : AdminPost(a, body)
  \/ \E a \in Admins : AdminCheckReturns(a)
  \/ \E a \in Admins : AdminAppendReturns(a)
  \/ \E a \in Admins : AdminRereadReturns(a)
  \/ \E a \in Admins, u \in {"101", "102", "103", "104"} : AdminDeleteArrives(a, u)
  \/ \E a \in Admins : AdminDeleteReads(a)
  \/ \E a \in Admins : AdminDeleteApplies(a)

SpecAdmin == AdminInit /\ [][AdminNext]_vars


(***************************************************************************)
(* Properties of the registry runs (SpecAdmin).                            *)
(***************************************************************************)
\* The rows without the first one that holds the userId.
WithoutRowOf(rows, userId) ==
  LET hits == {i \in DOMAIN rows : rows[i].userId = userId}
  IN IF hits = {} THEN rows
     ELSE RemoveAt(rows, CHOOSE i \in hits : \A j \in hits : i <= j)

\* C27: a delete request that has been answered, and during which no
\* other request changed the sheet, has left the sheet as it found it
\* without the row of the userId, every other row unchanged; when no row
\* held the userId the sheet is as it found it.
C27_DeletesThatRow ==
  \A a \in Admins :
    ( /\ probe[a].kind = "delete"
      /\ probe[a].pc = "Done"
      /\ probe[a].atDelete = probe[a].before ) =>
      probe[a].after = WithoutRowOf(probe[a].before, probe[a].userId)

\* C30: no two rows of the USERS sheet hold the same userId, whatever the
\* interleaving of the requests that add representatives.
C30_UniqueUserId ==
  \A i, j \in DOMAIN usersSheet :
    i # j => usersSheet[i].userId # usersSheet[j].userId

=============================================================================
